---- MODULE Spec2Model ----
(***************************************************************************)
(* Model of seanode: the catalog / temporal resolver of ModelTaskCreator   *)
(* and its subclasses, the request orchestration of SurgeModelRequest.run  *)
(* and the result merger SurgeModelRequest._concat_and_update.             *)
(*                                                                         *)
(* Datetimes are integers: ticks since 2024-05-13 00:00, TicksPerHour      *)
(* ticks to the hour.  Python's None is the empty sequence None, and an    *)
(* optional value x is <<x>>.                                              *)
(***************************************************************************)
EXTENDS Integers, Sequences, FiniteSets, TLC

VARIABLES res, req, run, mrg

vars == <<res, req, run, mrg>>

----------------------------------------------------------------------------
(* Bounds of the model.                                                    *)

TicksPerHour == 2
MaxDay == 1
TaskGridHours == 1

(* Calendar.                                                               *)
TicksPerDay == 24 * TicksPerHour

None == <<>>
Some(x) == <<x>>

Max(a, b) == IF a >= b THEN a ELSE b
Min(a, b) == IF a <= b THEN a ELSE b

(* datetime.date(): the day a datetime falls on.                           *)
DayOf(t) == t \div TicksPerDay
(* strftime('%H'): the hour of the day of a datetime.                      *)
HourOf(t) == (t % TicksPerDay) \div TicksPerHour
(* datetime.datetime(dd.year, dd.month, dd.day, cc)                        *)
CycleTime(dd, cc) == dd * TicksPerDay + cc * TicksPerHour
(* datetime.timedelta(hours=h)                                             *)
Hours(h) == h * TicksPerHour
(* datetime.datetime(2024, 5, 13, h, 0) + whole days, as ticks             *)
At(h) == h * TicksPerHour

RECURSIVE SeqMax(_)
SeqMax(s) == IF Len(s) = 1 THEN s[1] ELSE Max(s[1], SeqMax(Tail(s)))

Range(s) == {s[i] : i \in 1..Len(s)}

----------------------------------------------------------------------------
(* request_options: the enumerations.                                      *)

POINTS == "points"
MESH == "mesh"
GRID == "grid"
FileGeometry == <<POINTS, MESH, GRID>>

NOWCAST == "nowcast"
FORECAST == "forecast"
ForecastType == <<NOWCAST, FORECAST>>

ModelOptions == <<"STOFS_2D_GLO", "STOFS_3D_ATL", "GFS">>
DataStoreOptions == <<"AWS", "LOCAL">>

----------------------------------------------------------------------------
(* Field sources and the model catalogs.                                   *)

Var(out, file, datum) ==
    [varname_out |-> out, varname_file |-> file, datum |-> datum]

(* The dataclass FieldSource(filename_template, variables, coords,         *)
(* file_geometry, file_format).                                            *)
FieldSource(template, variables, coords, geometry, format) ==
    [filename_template |-> template, variables |-> variables,
     coords |-> coords, file_geometry |-> geometry, file_format |-> format]

(* FieldSource.get_vars                                                    *)
get_vars(fs) == [i \in 1..Len(fs.variables) |-> fs.variables[i].varname_out]

PointCoords == "latitude:y,longitude:x,time:time,station_name:station_name"
MeshCoords == "latitude:y,longitude:x,time:time"
SchismCoords ==
    "latitude:SCHISM_hgrid_node_y,longitude:SCHISM_hgrid_node_x,time:time"

S2DMeshSources == <<
    FieldSource("noaa-gestofs-pds/stofs_2d_glo.{yyyymmdd}/stofs_2d_glo.t{hh}z.fields.cwl.nc",
                <<Var("cwl_raw", "zeta", "LMSL")>>, MeshCoords, MESH, "nc"),
    FieldSource("noaa-gestofs-pds/stofs_2d_glo.{yyyymmdd}/stofs_2d_glo.t{hh}z.fields.htp.nc",
                <<Var("htp", "zeta", "LMSL")>>, MeshCoords, MESH, "nc"),
    FieldSource("noaa-gestofs-pds/stofs_2d_glo.{yyyymmdd}/stofs_2d_glo.t{hh}z.fields.swl.nc",
                <<Var("swl", "zeta", "None")>>, MeshCoords, MESH, "nc"),
    FieldSource("noaa-gestofs-pds/stofs_2d_glo.{yyyymmdd}/stofs_2d_glo.t{hh}z.fields.cwl.vel.nc",
                <<Var("u_vel", "u-vel", "None"), Var("v_vel", "v-vel", "None")>>,
                MeshCoords, MESH, "nc") >>

STOFS2DGloCatalog == <<
    [version |-> "v2.1", first_run |-> At(36), last_run |-> None,
     field_sources |-> <<
        FieldSource("noaa-gestofs-pds/stofs_2d_glo.{yyyymmdd}/stofs_2d_glo.t{hh}z.points.cwl.nc",
                    <<Var("cwl_bias_corrected", "zeta", "LMSL")>>,
                    PointCoords, POINTS, "nc"),
        FieldSource("noaa-gestofs-pds/stofs_2d_glo.{yyyymmdd}/stofs_2d_glo.t{hh}z.points.cwl.noanomaly.nc",
                    <<Var("cwl_raw", "zeta", "LMSL")>>,
                    PointCoords, POINTS, "nc"),
        FieldSource("noaa-gestofs-pds/stofs_2d_glo.{yyyymmdd}/stofs_2d_glo.t{hh}z.points.htp.nc",
                    <<Var("htp", "zeta", "LMSL")>>, PointCoords, POINTS, "nc"),
        FieldSource("noaa-gestofs-pds/stofs_2d_glo.{yyyymmdd}/stofs_2d_glo.t{hh}z.points.swl.nc",
                    <<Var("swl", "zeta", "None")>>, PointCoords, POINTS, "nc"),
        FieldSource("noaa-gestofs-pds/stofs_2d_glo.{yyyymmdd}/stofs_2d_glo.t{hh}z.points.cwl.vel.nc",
                    <<Var("u_vel", "u-vel", "None"),
                      Var("v_vel", "v-vel", "None")>>,
                    PointCoords, POINTS, "nc") >> \o S2DMeshSources],
    [version |-> "v2.0", first_run |-> At(-29520), last_run |-> Some(At(30)),
     field_sources |-> <<
        FieldSource("noaa-gestofs-pds/stofs_2d_glo.{yyyymmdd}/stofs_2d_glo.t{hh}z.points.cwl.nc",
                    <<Var("cwl_raw", "zeta", "LMSL")>>,
                    PointCoords, POINTS, "nc"),
        FieldSource("noaa-gestofs-pds/stofs_2d_glo.{yyyymmdd}/stofs_2d_glo.t{hh}z.points.htp.nc",
                    <<Var("htp", "zeta", "LMSL")>>, PointCoords, POINTS, "nc"),
        FieldSource("noaa-gestofs-pds/stofs_2d_glo.{yyyymmdd}/stofs_2d_glo.t{hh}z.points.swl.nc",
                    <<Var("swl", "zeta", "LMSL")>>, PointCoords, POINTS, "nc"),
        FieldSource("noaa-gestofs-pds/stofs_2d_glo.{yyyymmdd}/stofs_2d_glo.t{hh}z.points.cwl.vel.nc",
                    <<Var("u_vel", "u-vel", "None"),
                      Var("v_vel", "v-vel", "None")>>,
                    PointCoords, POINTS, "nc") >> \o S2DMeshSources] >>

S3DSources == <<
    FieldSource("noaa-nos-stofs3d-pds/STOFS-3D-Atl/stofs_3d_atl.{yyyymmdd}/stofs_3d_atl.t{hh}z.points.cwl.nc",
                <<Var("cwl", "zeta", "NAVD88")>>, PointCoords, POINTS, "nc"),
    FieldSource("noaa-nos-stofs3d-pds/STOFS-3D-Atl/stofs_3d_atl.{yyyymmdd}/stofs_3d_atl.t{hh}z.points.cwl.temp.salt.vel.nc",
                <<Var("temperature", "temperature", "None"),
                  Var("salinity", "salinity", "None"),
                  Var("u_vel", "u", "None"), Var("v_vel", "v", "None")>>,
                PointCoords, POINTS, "nc"),
    FieldSource("noaa-nos-stofs3d-pds/STOFS-3D-Atl/stofs_3d_atl.{yyyymmdd}/stofs_3d_atl.t{hh}z.fields.out2d_{file_hour}.nc",
                <<Var("cwl", "elevation", "xGEOID20B")>>,
                SchismCoords, MESH, "nc") >>

STOFS3DAtlCatalog == <<
    [version |-> "v2.1", first_run |-> At(36), last_run |-> None,
     field_sources |-> S3DSources],
    [version |-> "v1.1", first_run |-> At(-11676), last_run |-> Some(At(12)),
     field_sources |-> S3DSources] >>

(* gfs.py and hrrr.py build their field source with the positional         *)
(* arguments (var_group, file_format, geometry, variables, coords), which  *)
(* the dataclass binds to (filename_template, variables, coords,           *)
(* file_geometry, file_format): file_geometry holds a list, written here   *)
(* as the token "list", which equals no FileGeometry.                      *)
GFSCatalog == <<
    [version |-> "v1", first_run |-> At(-27540), last_run |-> None,
     field_sources |-> <<
        FieldSource("sfluxgrb", <<>>, GRID, "list", "dict") >>] >>

HRRRCatalog == <<
    [version |-> "v1", first_run |-> At(-27540), last_run |-> None,
     field_sources |-> <<
        FieldSource("air", <<>>, MESH, "list", "dict") >>] >>

(* The task creators: class attributes cycles, nowcast_period and          *)
(* data_catalog (a dict, iterated in insertion order).                     *)
STOFS2DGloTaskCreator ==
    [name |-> "STOFS_2D_GLO", cycles |-> <<0, 6, 12, 18>>,
     nowcast_period |-> 6, data_catalog |-> STOFS2DGloCatalog]
STOFS3DAtlTaskCreator ==
    [name |-> "STOFS_3D_ATL", cycles |-> <<12>>,
     nowcast_period |-> 24, data_catalog |-> STOFS3DAtlCatalog]
GFSTaskCreator ==
    [name |-> "GFS", cycles |-> <<0, 6, 12, 18>>,
     nowcast_period |-> 6, data_catalog |-> GFSCatalog]
HRRRTaskCreator ==
    [name |-> "HRRR", cycles |-> <<12>>,
     nowcast_period |-> 24, data_catalog |-> HRRRCatalog]

(* A direct instance ModelTaskCreator(cycles, nowcast_period, data_catalog) *)
(* whose catalog declares swl for points in two field sources.             *)
AmbiguousTaskCreator ==
    [name |-> "ModelTaskCreator", cycles |-> <<0, 12>>, nowcast_period |-> 12,
     data_catalog |-> <<
        [version |-> "v1", first_run |-> At(0), last_run |-> None,
         field_sources |-> <<
            FieldSource("a.{yyyymmdd}.t{hh}z.nc",
                        <<Var("swl", "zeta", "None")>>,
                        PointCoords, POINTS, "nc"),
            FieldSource("b.{yyyymmdd}.t{hh}z.nc",
                        <<Var("swl", "zeta", "LMSL"),
                          Var("htp", "zeta", "LMSL")>>,
                        PointCoords, POINTS, "nc") >>] >>]

Creators == {STOFS2DGloTaskCreator, STOFS3DAtlTaskCreator,
             GFSTaskCreator, HRRRTaskCreator}

----------------------------------------------------------------------------
(* ModelTaskCreator: the catalog resolver.                                 *)

(* get_versions_by_date: one tuple (ver, clipped start, clipped end) per   *)
(* catalog version that passes the overlap test, in catalog order.         *)
VersionOverlaps_strict(start_time, end_time, fr, lr) ==
    IF lr # None THEN (start_time < lr[1]) /\ (end_time >= fr)
    ELSE end_time >= fr
VersionOverlaps(start_time, end_time, fr, lr) ==
    IF lr # None THEN (start_time <= lr[1]) /\ (end_time >= fr)
    ELSE end_time >= fr

ClippedVersion_unclipped_end(ver, start_time, end_time, fr, lr) ==
    [ver |-> ver, start |-> Max(start_time, fr), end |-> end_time]
ClippedVersion(ver, start_time, end_time, fr, lr) ==
    [ver |-> ver, start |-> Max(start_time, fr),
     end |-> IF lr # None THEN Min(end_time, lr[1]) ELSE end_time]

RECURSIVE VersionsScan(_, _, _, _)
VersionsScan(catalog, start_time, end_time, i) ==
    IF i > Len(catalog) THEN <<>>
    ELSE LET fr == catalog[i].first_run
             lr == catalog[i].last_run
             rest == VersionsScan(catalog, start_time, end_time, i + 1)
         IN IF VersionOverlaps(start_time, end_time, fr, lr)
            THEN <<ClippedVersion(catalog[i].version, start_time, end_time,
                                  fr, lr)>> \o rest
            ELSE rest

get_versions_by_date(self, start_time, end_time) ==
    VersionsScan(self.data_catalog, start_time, end_time, 1)

(* self.data_catalog[version]                                              *)
CatalogEntry(self, version) ==
    LET i == CHOOSE j \in 1..Len(self.data_catalog) :
                 self.data_catalog[j].version = version
    IN self.data_catalog[i]

(* get_field_source: the field sources of the version with the geometry    *)
(* and the variable; sys.exit (SystemExit carrying the message) unless     *)
(* exactly one matches.  The message is kept as its variable parts.        *)
MatchingSources_any_geometry(self, version, var, geometry) ==
    SelectSeq(CatalogEntry(self, version).field_sources,
              LAMBDA fs : var \in Range(get_vars(fs)))
MatchingSources(self, version, var, geometry) ==
    SelectSeq(CatalogEntry(self, version).field_sources,
              LAMBDA fs : fs.file_geometry = geometry
                          /\ var \in Range(get_vars(fs)))

get_field_source_skip_missing(self, version, var, geometry) ==
    LET result == MatchingSources(self, version, var, geometry)
    IN IF Len(result) > 1
       THEN [exit |-> TRUE, result |-> <<>>,
             message |-> <<"warning: more than one FieldSource available",
                           var, geometry>>]
       ELSE [exit |-> FALSE, result |-> result, message |-> <<>>]
get_field_source(self, version, var, geometry) ==
    LET result == MatchingSources(self, version, var, geometry)
    IN IF Len(result) > 1
       THEN [exit |-> TRUE, result |-> <<>>,
             message |-> <<"warning: more than one FieldSource available",
                           var, geometry>>]
       ELSE IF Len(result) = 0
       THEN [exit |-> TRUE, result |-> <<>>,
             message |-> <<"warning: no FieldSource available",
                           var, geometry>>]
       ELSE [exit |-> FALSE, result |-> result, message |-> <<>>]

(* get_init_time_forecast: the latest cycle of start_date's day that is    *)
(* not after start_date, else the last cycle of the day before.            *)
ContainsStartDate_strict(cd, start_date) == cd < start_date
ContainsStartDate(cd, start_date) == cd <= start_date

ForecastInitDate_day_start(cycles, start_date) ==
    CycleTime(DayOf(start_date), 0)
ForecastInitDate(cycles, start_date) ==
    LET cycle_dates == [i \in 1..Len(cycles) |->
                            CycleTime(DayOf(start_date), cycles[i])]
        containing == SelectSeq(cycle_dates,
                          LAMBDA cd : ContainsStartDate(cd, start_date))
    IN IF Len(containing) = 0
       THEN SeqMax(cycle_dates) - TicksPerDay
       ELSE SeqMax(containing)

get_init_time_forecast(self, start_date) ==
    LET init_date == ForecastInitDate(self.cycles, start_date)
    IN [init_dates |-> <<init_date>>,
        time_slices |-> <<[lo |-> init_date, hi |-> None]>>]

(* GFSTaskCreator.get_init_time_forecast: the same init date, paired with  *)
(* the lead times 0..119 by 1 and 120..180 by 3.                           *)
GFSForecastLeadTimes ==
    [i \in 1..141 |-> IF i <= 120 THEN i - 1 ELSE 120 + 3 * (i - 121)]

GFS_get_init_time_forecast(self, start_date) ==
    LET init_date == ForecastInitDate(self.cycles, start_date)
    IN [init_dates |-> <<init_date>>,
        lead_times |-> <<GFSForecastLeadTimes>>]

(* get_init_times_nowcast: scan the days start_date.date() ..              *)
(* end_date.date() + 1 and, within a day, the cycles in tuple order.       *)
NowcastSelected_after_start(nowcast_start, nowcast_end, start_date, end_date) ==
    (nowcast_end > start_date) /\ (nowcast_start < end_date)
NowcastSelected(nowcast_start, nowcast_end, start_date, end_date) ==
    (nowcast_end >= start_date) /\ (nowcast_start < end_date)

RECURSIVE NowcastScan(_, _, _, _, _)
NowcastScan(self, start_date, end_date, dd, ci) ==
    IF dd > DayOf(end_date) + 1 THEN <<>>
    ELSE IF ci > Len(self.cycles)
    THEN NowcastScan(self, start_date, end_date, dd + 1, 1)
    ELSE LET cc == self.cycles[ci]
             nowcast_start == CycleTime(dd, cc) - Hours(self.nowcast_period)
             nowcast_end == CycleTime(dd, cc)
             rest == NowcastScan(self, start_date, end_date, dd, ci + 1)
         IN IF NowcastSelected(nowcast_start, nowcast_end,
                               start_date, end_date)
            THEN <<[init |-> CycleTime(dd, cc),
                    slice |-> [lo |-> Max(nowcast_start, start_date),
                               hi |-> Some(Min(nowcast_end, end_date))]]>>
                 \o rest
            ELSE rest

get_init_times_nowcast(self, start_date, end_date) ==
    LET sel == NowcastScan(self, start_date, end_date, DayOf(start_date), 1)
    IN [init_dates |-> [i \in 1..Len(sel) |-> sel[i].init],
        time_slices |-> [i \in 1..Len(sel) |-> sel[i].slice]]

(* GFSTaskCreator.get_init_times_nowcast: the window of a cycle is         *)
(* [init, init + nowcast_period) and each cycle gets a range of lead hours.*)
CeilHours_floor(d) == d \div TicksPerHour
CeilHours(d) == -((-d) \div TicksPerHour)
PyRange(a, b) == IF b > a THEN [i \in 1..(b - a) |-> a + i - 1] ELSE <<>>

RECURSIVE GFSNowcastScan(_, _, _, _, _)
GFSNowcastScan(self, start_date, end_date, dd, ci) ==
    IF dd > DayOf(end_date) + 1 THEN <<>>
    ELSE IF ci > Len(self.cycles)
    THEN GFSNowcastScan(self, start_date, end_date, dd + 1, 1)
    ELSE LET cc == self.cycles[ci]
             nowcast_start == CycleTime(dd, cc)
             nowcast_end == CycleTime(dd, cc) + Hours(self.nowcast_period)
             rest == GFSNowcastScan(self, start_date, end_date, dd, ci + 1)
         IN IF (nowcast_end > start_date) /\ (nowcast_start <= end_date)
            THEN <<[init |-> CycleTime(dd, cc),
                    leads |-> PyRange(
                        6 - Min(6, CeilHours(nowcast_end - start_date)),
                        1 + Min(5, CeilHours(end_date - nowcast_start)))]>>
                 \o rest
            ELSE rest

GFS_get_init_times_nowcast(self, start_date, end_date) ==
    LET sel == GFSNowcastScan(self, start_date, end_date,
                              DayOf(start_date), 1)
    IN [init_dates |-> [i \in 1..Len(sel) |-> sel[i].init],
        lead_times |-> [i \in 1..Len(sel) |-> sel[i].leads]]

----------------------------------------------------------------------------
(* The task factory: get_analysis_tasks of each task creator.              *)

(* The replacement fields of a filename template, in the order in which  *)
(* str.format meets them.                                                  *)
TemplateFields(template) ==
    CASE template \in {"sfluxgrb", "air", "dir/f.nc"} -> <<>>
      [] template = "dir/f.t{lead}z.nc" -> <<"lead">>
      [] template = "dir/{yyyymmdd}/f.t{hh}z.{lead}.nc"
            -> <<"yyyymmdd", "hh", "lead">>
      [] template = "dir/{hh}/f.t{hh}z.nc" -> <<"hh", "hh">>
      [] template = "dir/f.{member}.{lead}.nc" -> <<"member", "lead">>
      [] template = S3DSources[3].filename_template
            -> <<"yyyymmdd", "hh", "file_hour">>
      [] OTHER -> <<"yyyymmdd", "hh">>

(* The named placeholders of a filename template.                          *)
Placeholders(template) == Range(TemplateFields(template))

(* init_datetime.strftime('%Y%m%d') and init_datetime.strftime('%H').      *)
strftime_Ymd(t) == <<2024, 5, 13 + DayOf(t)>>
strftime_H(t) == <<HourOf(t) \div 10, HourOf(t) % 10>>

(* A namespace is a dict: key / value pairs in insertion order.            *)
NsKeys(namespace) == {namespace[i][1] : i \in 1..Len(namespace)}
NsValue(namespace, k) ==
    namespace[CHOOSE i \in 1..Len(namespace) : namespace[i][1] = k][2]

(* FieldSource.get_filename: str.format over dt_dict and namespace.  A key *)
(* given by both dicts is a TypeError naming the first such key of the     *)
(* namespace; a field with no value is a KeyError naming the first such    *)
(* field of the template.  The rendered name is the template with the      *)
(* value of each field.                                                    *)
get_filename(fs, init_datetime, namespace) ==
    LET dt_dict == IF init_datetime # None
                   THEN [k \in {"yyyymmdd", "hh"} |->
                            IF k = "hh" THEN strftime_H(init_datetime[1])
                            ELSE strftime_Ymd(init_datetime[1])]
                   ELSE [k \in {} |-> None]
        given == DOMAIN dt_dict \cup NsKeys(namespace)
        fields == TemplateFields(fs.filename_template)
        twice == {i \in 1..Len(namespace) : namespace[i][1] \in DOMAIN dt_dict}
        missing == {i \in 1..Len(fields) : fields[i] \notin given}
        First(S) == CHOOSE i \in S : \A j \in S : i <= j
    IN IF twice # {}
       THEN [error |-> Some(<<"TypeError", namespace[First(twice)][1]>>),
             name |-> None]
       ELSE IF missing # {}
       THEN [error |-> Some(<<"KeyError", fields[First(missing)]>>),
             name |-> None]
       ELSE [error |-> None,
             name |-> [template |-> fs.filename_template,
                       values |-> [i \in 1..Len(fields) |->
                                     IF fields[i] \in DOMAIN dt_dict
                                     THEN <<"dt", dt_dict[fields[i]]>>
                                     ELSE <<"ns", NsValue(namespace,
                                                          fields[i])>>]]]

NoNamespace == <<>>

(* The loop "for var in request_variables: fs_new = get_field_source(...)" *)
(* with its deduplicating append; stops at the first sys.exit.             *)
RECURSIVE AppendNew(_, _)
AppendNew(fs_list, fs_new) ==
    IF fs_new = <<>> THEN fs_list
    ELSE AppendNew(IF Head(fs_new) \in Range(fs_list) THEN fs_list
                   ELSE Append(fs_list, Head(fs_new)),
                   Tail(fs_new))

RECURSIVE ResolveSources(_, _, _, _, _, _)
ResolveSources(self, version, request_variables, geometry, i, fs_list) ==
    IF i > Len(request_variables)
    THEN [exit |-> FALSE, message |-> <<>>, fs_list |-> fs_list]
    ELSE LET r == get_field_source(self, version, request_variables[i],
                                   geometry)
         IN IF r.exit
            THEN [exit |-> TRUE, message |-> r.message, fs_list |-> <<>>]
            ELSE ResolveSources(self, version, request_variables, geometry,
                     i + 1,
                     AppendNew(fs_list, r.result))

(* task_vars = [var_dict for var_dict in fs.variables                      *)
(*              if var_dict['varname_out'] in request_variables]           *)
TaskVars_all(fs, request_variables) == fs.variables
TaskVars(fs, request_variables) ==
    SelectSeq(fs.variables,
              LAMBDA vd : vd.varname_out \in Range(request_variables))

(* The constructors of AnalysisTask and its subclasses.  version and init  *)
(* are history fields: the catalog version and the init time the task was  *)
(* built from.                                                             *)
Task(class, filename, fs, task_vars, timeslice, stations, version, init) ==
    [class |-> class, filename |-> filename, coords |-> fs.coords,
     varlist |-> task_vars, timeslice |-> timeslice, stations |-> stations,
     file_format |-> IF class = "MeshAnalysisTask" THEN Some(fs.file_format)
                     ELSE None,
     switch_xy |-> class = "STOFS3DAtlAnalysisTask" /\ version \in {"v2.1"},
     version |-> version, init |-> init]

(* The init times of one version.                                          *)
InitTimes(self, forecast_type, v) ==
    IF forecast_type = FORECAST
    THEN get_init_time_forecast(self, v.start)
    ELSE get_init_times_nowcast(self, v.start, v.end)

(* "for fs in fs_list: for idt, dt in enumerate(init_dates)" of            *)
(* STOFS2DGloTaskCreator.get_analysis_tasks and of                         *)
(* STOFS3DAtlTaskCreator._get_point_analysis_tasks.                        *)
FileTasks(class, fs_list, times, request_variables, stations, version) ==
    LET n == Len(times.init_dates)
    IN [k \in 1..(Len(fs_list) * n) |->
          LET fs == fs_list[((k - 1) \div n) + 1]
              idt == ((k - 1) % n) + 1
              dt == times.init_dates[idt]
          IN Task(class, get_filename(fs, Some(dt), NoNamespace).name, fs,
                  TaskVars(fs, request_variables),
                  Some(times.time_slices[idt]), stations, version, dt)]

(* "for fs in fs_list: for idt, dt: for fh in file_hours" of               *)
(* STOFS3DAtlTaskCreator._get_mesh_analysis_tasks.                         *)
ForecastFileHours == <<"f001_012", "f013_024", "f025_036", "f037_048",
                       "f049_060", "f061_072", "f073_084", "f085_096">>
NowcastFileHours == <<"n001_012", "n013_024">>

FileHourTasks(fs_list, times, file_hours, request_variables, stations, version) ==
    LET n == Len(times.init_dates)
        m == Len(file_hours)
    IN [k \in 1..(Len(fs_list) * n * m) |->
          LET fs == fs_list[((k - 1) \div (n * m)) + 1]
              idt == (((k - 1) \div m) % n) + 1
              fh == file_hours[((k - 1) % m) + 1]
              dt == times.init_dates[idt]
          IN Task("MeshAnalysisTask",
                  get_filename(fs, Some(dt),
                               <<<<"file_hour", fh>>>>).name,
                  fs, TaskVars(fs, request_variables),
                  Some(times.time_slices[idt]), stations, version, dt)]

(* The body of the loop over versions of get_analysis_tasks, for one       *)
(* version tuple v: the tasks appended to result, or the fatal exit.       *)
VersionTasks(self, request_variables, stations, forecast_type, geometry, v) ==
    LET times == InitTimes(self, forecast_type, v)
        src == ResolveSources(self, v.ver, request_variables, geometry,
                              1, <<>>)
    IN IF src.exit
       THEN [exit |-> TRUE, message |-> src.message, tasks |-> <<>>]
       ELSE IF self.name = "STOFS_2D_GLO"
       THEN [exit |-> FALSE, message |-> <<>>,
             tasks |-> FileTasks(IF geometry = MESH THEN "MeshAnalysisTask"
                                 ELSE "AnalysisTask",
                                 src.fs_list, times, request_variables,
                                 stations, v.ver)]
       ELSE IF self.name = "STOFS_3D_ATL" /\ geometry = POINTS
       THEN [exit |-> FALSE, message |-> <<>>,
             tasks |-> FileTasks("STOFS3DAtlAnalysisTask", src.fs_list,
                                 times, request_variables, stations, v.ver)]
       ELSE IF self.name = "STOFS_3D_ATL"
       THEN [exit |-> FALSE, message |-> <<>>,
             tasks |-> FileHourTasks(src.fs_list, times,
                          IF forecast_type = FORECAST THEN ForecastFileHours
                          ELSE NowcastFileHours,
                          request_variables, stations, v.ver)]
       ELSE IF src.fs_list = <<>>
       THEN [exit |-> FALSE, message |-> <<>>, tasks |-> <<>>]
       ELSE [exit |-> TRUE, tasks |-> <<>>,
             message |-> <<"AttributeError", "var_group", geometry>>]

(* STOFS3DAtlTaskCreator.get_analysis_tasks dispatches on the geometry     *)
(* before anything else and raises ValueError for a grid request.          *)
GeometrySupported(self, geometry) ==
    self.name = "STOFS_3D_ATL" => geometry \in {POINTS, MESH}

RECURSIVE TasksFrom(_, _, _, _, _, _, _)
TasksFrom(self, request_variables, stations, forecast_type, geometry, versions, i) ==
    IF i > Len(versions)
    THEN [exit |-> FALSE, message |-> <<>>, tasks |-> <<>>]
    ELSE LET r == VersionTasks(self, request_variables, stations,
                               forecast_type, geometry, versions[i])
             rest == TasksFrom(self, request_variables, stations,
                               forecast_type, geometry, versions, i + 1)
         IN IF r.exit THEN r
            ELSE IF rest.exit THEN rest
            ELSE [exit |-> FALSE, message |-> <<>>,
                  tasks |-> r.tasks \o rest.tasks]

get_analysis_tasks(self, request_variables, stations, start_date, end_date, forecast_type, geometry) ==
    IF ~GeometrySupported(self, geometry)
    THEN [exit |-> TRUE, tasks |-> <<>>,
          message |-> <<"ValueError", "geometry", geometry>>]
    ELSE TasksFrom(self, request_variables, stations, forecast_type,
                   geometry,
                   get_versions_by_date(self, start_date, end_date), 1)

----------------------------------------------------------------------------
(* Direct calls of the resolver and of the task factory: res holds the     *)
(* arguments of the last call and what it returned.                        *)

(* Query datetimes: every tick of the days 2024-05-13 .. +MaxDay.          *)
QueryTimes == 0..((MaxDay + 1) * TicksPerDay - 1)
(* Query datetimes of the task factory calls: every TaskGridHours hours.   *)
TaskQueryTimes == {t \in QueryTimes : t % (TaskGridHours * TicksPerHour) = 0}

RequestVariables == {"cwl_raw", "cwl_bias_corrected", "htp", "swl", "u_vel",
                     "v_vel", "cwl", "ps"}
RequestVarLists == {<<>>, <<"cwl_raw">>, <<"cwl_bias_corrected">>,
                    <<"u_vel", "v_vel">>, <<"cwl", "u_vel">>,
                    <<"htp", "u_vel", "cwl_raw">>, <<"ps">>}
Geometries == Range(FileGeometry)
Stations == "stations"

NoSource == [exit |-> FALSE, result |-> <<>>, message |-> <<>>]
NoTasks == [exit |-> FALSE, message |-> <<>>, tasks |-> <<>>]

ResIdle ==
    [op |-> "none", model |-> "STOFS_2D_GLO",
     start_date |-> 0, end_date |-> 0, version |-> "", var |-> "",
     geometry |-> "", variables |-> <<>>, forecast_type |-> "",
     init_dates |-> <<>>, time_slices |-> <<>>, lead_times |-> <<>>,
     versions |-> <<>>, fs |-> NoSource, tasks |-> NoTasks]
ReqIdle == [pc |-> "idle"]
RunIdle == [pc |-> "idle"]
MrgIdle == [pc |-> "idle"]

AllCreators == Creators \cup {AmbiguousTaskCreator}

(* The task creator object of a call, by its name.                         *)
CreatorNamed(name) == CHOOSE c \in AllCreators : c.name = name
ResSelf == CreatorNamed(res.model)

(* The object a call is made on and its first datetime argument are drawn  *)
(* at the start; the other arguments are drawn by the call.                *)
InitResolver ==
    /\ \E self \in AllCreators, t \in QueryTimes :
          res = [ResIdle EXCEPT !.model = self.name, !.start_date = t]
    /\ req = ReqIdle
    /\ run = RunIdle
    /\ mrg = MrgIdle

CallGetInitTimeForecast ==
    /\ res.op = "none"
    /\ ResSelf # GFSTaskCreator
    /\ LET r == get_init_time_forecast(ResSelf, res.start_date)
       IN res' = [res EXCEPT !.op = "get_init_time_forecast",
                     !.init_dates = r.init_dates,
                     !.time_slices = r.time_slices]
    /\ UNCHANGED <<req, run, mrg>>

CallGFSGetInitTimeForecast ==
    /\ res.op = "none"
    /\ ResSelf = GFSTaskCreator
    /\ LET r == GFS_get_init_time_forecast(ResSelf, res.start_date)
       IN res' = [res EXCEPT !.op = "get_init_time_forecast",
                     !.init_dates = r.init_dates,
                     !.lead_times = r.lead_times]
    /\ UNCHANGED <<req, run, mrg>>

CallGetInitTimesNowcast ==
    /\ res.op = "none"
    /\ ResSelf # GFSTaskCreator
    /\ \E e \in QueryTimes :
        /\ res.start_date <= e
        /\ LET r == get_init_times_nowcast(ResSelf, res.start_date, e)
           IN res' = [res EXCEPT !.op = "get_init_times_nowcast",
                         !.end_date = e,
                         !.init_dates = r.init_dates,
                         !.time_slices = r.time_slices]
    /\ UNCHANGED <<req, run, mrg>>

CallGFSGetInitTimesNowcast ==
    /\ res.op = "none"
    /\ ResSelf = GFSTaskCreator
    /\ \E e \in QueryTimes :
        /\ res.start_date <= e
        /\ LET r == GFS_get_init_times_nowcast(ResSelf, res.start_date, e)
           IN res' = [res EXCEPT !.op = "get_init_times_nowcast",
                         !.end_date = e,
                         !.init_dates = r.init_dates,
                         !.lead_times = r.lead_times]
    /\ UNCHANGED <<req, run, mrg>>

CallGetVersionsByDate ==
    /\ res.op = "none"
    /\ \E e \in QueryTimes :
        /\ res.start_date <= e
        /\ res' = [res EXCEPT !.op = "get_versions_by_date",
                      !.end_date = e,
                      !.versions = get_versions_by_date(ResSelf,
                                       res.start_date, e)]
    /\ UNCHANGED <<req, run, mrg>>

CallGetFieldSource ==
    /\ res.op = "none"
    /\ res.start_date = 0
    /\ \E var \in RequestVariables, geometry \in Geometries,
          i \in 1..Len(ResSelf.data_catalog) :
          res' = [res EXCEPT !.op = "get_field_source",
                     !.version = ResSelf.data_catalog[i].version,
                     !.var = var, !.geometry = geometry,
                     !.fs = get_field_source(ResSelf,
                                ResSelf.data_catalog[i].version,
                                var, geometry)]
    /\ UNCHANGED <<req, run, mrg>>

CallGetAnalysisTasks ==
    /\ res.op = "none"
    /\ ResSelf \in Creators
    /\ res.start_date \in TaskQueryTimes
    /\ \E variables \in RequestVarLists, e \in TaskQueryTimes,
          forecast_type \in Range(ForecastType), geometry \in Geometries :
        /\ res.start_date <= e
        /\ res' = [res EXCEPT !.op = "get_analysis_tasks",
                      !.variables = variables, !.end_date = e,
                      !.forecast_type = forecast_type,
                      !.geometry = geometry,
                      !.tasks = get_analysis_tasks(ResSelf, variables,
                                    Stations, res.start_date, e,
                                    forecast_type, geometry)]
    /\ UNCHANGED <<req, run, mrg>>

NextResolver ==
    \/ CallGetInitTimeForecast
    \/ CallGFSGetInitTimeForecast
    \/ CallGetInitTimesNowcast
    \/ CallGFSGetInitTimesNowcast
    \/ CallGetVersionsByDate
    \/ CallGetFieldSource
    \/ CallGetAnalysisTasks

SpecResolver == InitResolver /\ [][NextResolver]_vars

----------------------------------------------------------------------------
(* Properties of the resolver.                                             *)

(* AnalysisTask.get_subset, "Subset time": ds.sel(time=slice(lo, hi)) is a *)
(* label slice, which keeps the instants lo <= t <= hi, both ends included.*)
SelTime(instants, lo, hi) == {t \in instants : lo <= t /\ t <= hi}

(* The declared cycle times of the days around a query.                    *)
CycleTimesNear(self, first_day, last_day) ==
    {CycleTime(d, self.cycles[i]) :
        d \in first_day..last_day, i \in 1..Len(self.cycles)}

(* The instants (ticks) around a query.                                    *)
InstantsNear(start_date, end_date) ==
    (start_date - 2 * TicksPerDay)..(end_date + 2 * TicksPerDay)

(* The half-open nowcast window (c - nowcast_period, c] of a cycle c.      *)
InNowcastWindow(self, c, t) ==
    c - Hours(self.nowcast_period) < t /\ t <= c


(* C4: get_init_time_forecast(t) returns exactly one init time c, a        *)
(* declared cycle time of t's day or of the day before, with c <= t and no *)
(* declared cycle time c2 with c < c2 <= t; if t is a cycle time, c = t.   *)
C4_ForecastInitIsLatestCycle ==
    res.op = "get_init_time_forecast" =>
        LET t == res.start_date
            near == CycleTimesNear(ResSelf, DayOf(t) - 1, DayOf(t))
            all == CycleTimesNear(ResSelf, DayOf(t) - 2, DayOf(t) + 1)
        IN /\ Len(res.init_dates) = 1
           /\ res.init_dates[1] \in near
           /\ res.init_dates[1] <= t
           /\ ~\E c2 \in all : res.init_dates[1] < c2 /\ c2 <= t
           /\ (t \in all => res.init_dates[1] = t)

(* A forecast query before the first cycle of its day is answered with the *)
(* last cycle of the day before.                                           *)
C4_Witness ==
    /\ res.op = "get_init_time_forecast"
    /\ DayOf(res.start_date) = 1
    /\ res.init_dates[1] < CycleTime(1, 0)

(* C4 again for a query that falls on a cycle time.                        *)
C4_WitnessOnCycle ==
    /\ res.op = "get_init_time_forecast"
    /\ ResSelf = GFSTaskCreator
    /\ res.start_date = CycleTime(1, 12)
    /\ res.init_dates = <<CycleTime(1, 12)>>

(* C5: the base get_init_times_nowcast(start, end), start <= end, returns  *)
(* strictly ascending init times, one time slice per init time, and both   *)
(* the windows of the selected cycles and the returned time slices cover   *)
(* every instant of [start, end].                                          *)
C5_NowcastAscendingAndCovering ==
    (res.op = "get_init_times_nowcast" /\ ResSelf # GFSTaskCreator) =>
        LET n == Len(res.init_dates)
        IN /\ Len(res.time_slices) = n
           /\ \A i \in 1..n, j \in 1..n :
                 i < j => res.init_dates[i] < res.init_dates[j]
           /\ \A t \in res.start_date..res.end_date :
                 /\ \E i \in 1..n :
                       InNowcastWindow(ResSelf, res.init_dates[i], t)
                 /\ \E i \in 1..n :
                       t \in SelTime({t}, res.time_slices[i].lo,
                                     res.time_slices[i].hi[1])

(* A nowcast query that starts on a cycle time and needs several cycles.   *)
C5_Witness ==
    /\ res.op = "get_init_times_nowcast"
    /\ ResSelf = STOFS2DGloTaskCreator
    /\ res.start_date = CycleTime(0, 6)
    /\ res.end_date = CycleTime(1, 7)
    /\ Len(res.init_dates) = 6

(* C6 (selection): the base get_init_times_nowcast selects exactly the     *)
(* cycles whose half-open window (c - nowcast_period, c] meets             *)
(* [start, end].                                                           *)
C6_SelectsCyclesMeetingQuery ==
    (res.op = "get_init_times_nowcast" /\ ResSelf # GFSTaskCreator) =>
        LET all == CycleTimesNear(ResSelf, DayOf(res.start_date) - 2,
                                  DayOf(res.end_date) + 3)
        IN Range(res.init_dates) =
              {c \in all : \E t \in res.start_date..res.end_date :
                               InNowcastWindow(ResSelf, c, t)}

(* C6: the base get_init_times_nowcast selects exactly the cycles whose    *)
(* half-open window (c - nowcast_period, c] meets [start, end], and the    *)
(* instants kept by the time slice of each selected cycle, as applied by   *)
(* get_subset, are the instants of that window inside [start, end].        *)
C6_SliceIsHalfOpenWindow ==
    (res.op = "get_init_times_nowcast" /\ ResSelf # GFSTaskCreator) =>
        LET inst == InstantsNear(res.start_date, res.end_date)
        IN /\ C6_SelectsCyclesMeetingQuery
           /\ \A i \in 1..Len(res.init_dates) :
                 SelTime(inst, res.time_slices[i].lo,
                         res.time_slices[i].hi[1])
                 = {t \in res.start_date..res.end_date :
                        InNowcastWindow(ResSelf, res.init_dates[i], t)}

(* C7: get_versions_by_date(start, end), start <= end, returns exactly the *)
(* catalog versions whose [first_run, last_run] meets [start, end] (no     *)
(* last_run: unbounded), in catalog order, each with                       *)
(* (max(start, first_run), min(end, last_run or end)); clipped start <=    *)
(* clipped end; no overlapping version gives the empty list.               *)
VersionMeets(entry, start_time, end_time) ==
    \E t \in start_time..end_time :
        entry.first_run <= t /\ (entry.last_run = None
                                 \/ t <= entry.last_run[1])

C7_VersionsOverlappingClipped ==
    res.op = "get_versions_by_date" =>
        LET cat == ResSelf.data_catalog
            s == res.start_date
            e == res.end_date
            hit == SelectSeq(cat, LAMBDA entry : VersionMeets(entry, s, e))
        IN /\ Len(res.versions) = Len(hit)
           /\ \A i \in 1..Len(hit) :
                 /\ res.versions[i].ver = hit[i].version
                 /\ res.versions[i].start = Max(s, hit[i].first_run)
                 /\ res.versions[i].end =
                       Min(e, IF hit[i].last_run = None THEN e
                              ELSE hit[i].last_run[1])
                 /\ res.versions[i].start <= res.versions[i].end
           /\ ((\A i \in 1..Len(cat) : ~VersionMeets(cat[i], s, e))
                 => res.versions = <<>>)

(* A query that starts on the last run of the older version and ends after *)
(* the first run of the newer one gets both versions, clipped.             *)
C7_Witness ==
    /\ res.op = "get_versions_by_date"
    /\ ResSelf = STOFS2DGloTaskCreator
    /\ res.start_date = At(30)
    /\ res.end_date = At(40)
    /\ res.versions = <<[ver |-> "v2.1", start |-> At(36), end |-> At(40)],
                        [ver |-> "v2.0", start |-> At(30), end |-> At(30)]>>

(* C7 again for a query that falls between two versions.                   *)
C7_WitnessNoOverlap ==
    /\ res.op = "get_versions_by_date"
    /\ ResSelf = STOFS2DGloTaskCreator
    /\ res.start_date = At(31)
    /\ res.end_date = At(35)
    /\ res.versions = <<>>

(* C8: a nowcast request on STOFS-2D-Global or STOFS-3D-Atlantic for at    *)
(* least one variable, whose [start, end] spans the boundary between the   *)
(* two catalog versions and which resolves its field sources, returns      *)
(* tasks built from field sources of both versions, and the time slice of  *)
(* every task lies inside [max(start, first_run), min(end, last_run or     *)
(* end)] of the version the task was built from.                           *)
SpansVersionBoundary(self, s, e) ==
    /\ Len(self.data_catalog) = 2
    /\ \E i, j \in 1..2 :
          /\ self.data_catalog[i].last_run # None
          /\ self.data_catalog[j].last_run = None
          /\ s <= self.data_catalog[i].last_run[1]
          /\ e >= self.data_catalog[j].first_run

C8_BoundaryCase ==
    /\ res.op = "get_analysis_tasks"
    /\ res.model \in {"STOFS_2D_GLO", "STOFS_3D_ATL"}
    /\ res.forecast_type = NOWCAST
    /\ res.variables # <<>>
    /\ ~res.tasks.exit
    /\ SpansVersionBoundary(ResSelf, res.start_date, res.end_date)

C8_BoundaryTasksOfBothVersionsClipped ==
    C8_BoundaryCase =>
        LET cat == ResSelf.data_catalog
            tasks == res.tasks.tasks
        IN /\ \A i \in 1..Len(cat) :
                 \E k \in 1..Len(tasks) :
                    /\ tasks[k].version = cat[i].version
                    /\ \E f \in 1..Len(cat[i].field_sources) :
                          /\ tasks[k].filename.template =
                                cat[i].field_sources[f].filename_template
                          /\ Range(tasks[k].varlist) \subseteq
                                Range(cat[i].field_sources[f].variables)
           /\ \A k \in 1..Len(tasks) :
                 LET entry == CatalogEntry(ResSelf, tasks[k].version)
                     slice == tasks[k].timeslice[1]
                 IN /\ Max(res.start_date, entry.first_run) <= slice.lo
                    /\ slice.lo <= slice.hi[1]
                    /\ slice.hi[1] <=
                          Min(res.end_date,
                              IF entry.last_run = None THEN res.end_date
                              ELSE entry.last_run[1])

(* A STOFS-2D-Global nowcast points request from 2024-05-14 00:00 to       *)
(* 18:00, across the v2.0 / v2.1 boundary: tasks of both versions.         *)
C8_Witness ==
    /\ C8_BoundaryCase
    /\ res.model = "STOFS_2D_GLO"
    /\ res.geometry = POINTS
    /\ res.variables = <<"cwl_raw">>
    /\ res.start_date = At(24)
    /\ res.end_date = At(42)
    /\ \E k \in 1..Len(res.tasks.tasks) :
          res.tasks.tasks[k].version = "v2.0"
    /\ \E k \in 1..Len(res.tasks.tasks) :
          res.tasks.tasks[k].version = "v2.1"

(* C9: get_field_source(version, variable, geometry) returns the single    *)
(* field source of the version with that geometry that declares the        *)
(* variable; with no or several such field sources it ends in a fatal exit *)
(* whose message names the variable and the geometry, and returns none.    *)
C9_Matches ==
    {f \in 1..Len(CatalogEntry(ResSelf, res.version).field_sources) :
        LET fs == CatalogEntry(ResSelf, res.version).field_sources[f]
        IN /\ fs.file_geometry = res.geometry
           /\ \E v \in 1..Len(fs.variables) :
                 fs.variables[v].varname_out = res.var}

C9_WitnessAmbiguous ==
    /\ res.op = "get_field_source"
    /\ res.model = "ModelTaskCreator"
    /\ res.var = "swl"
    /\ res.geometry = POINTS
    /\ res.fs.exit
    /\ res.fs.message[1] = "warning: more than one FieldSource available"

----------------------------------------------------------------------------
(* SurgeModelRequest._concat_and_update (request.py): per-task tables are  *)
(* data frames with an ordered (station, time) index of distinct keys, an  *)
(* ordered list of columns and one cell per key and column; NaN is the     *)
(* missing value.                                                          *)

MaxTables == 3
MaxVal == 2
MaxCells == 2

NaN == None
notna(v) == v # NaN

StationTimeKeys == {<<"8518750", 0>>, <<"8518750", 1>>}
Columns == {"cwl_raw", "u_vel"}
Values == {NaN} \cup {Some(v) : v \in 1..MaxVal}

(* The orderings of the subsets of a set S of at most two elements.        *)
Orderings(S) ==
    {<<>>} \cup {<<x>> : x \in S}
           \cup {p \in S \X S : p[1] # p[2]}

DataFrame(index, columns, data) ==
    [index |-> index, columns |-> columns, data |-> data]

EmptyDataFrame == DataFrame(<<>>, <<>>, <<>>)

(* The per-task tables: at most MaxCells cells each.                       *)
Shapes ==
    {p \in Orderings(StationTimeKeys) \X Orderings(Columns) :
        Len(p[1]) * Len(p[2]) <= MaxCells}

Tables ==
    UNION {{DataFrame(p[1], p[2], d) :
               d \in [Range(p[1]) -> [Range(p[2]) -> Values]]} :
           p \in Shapes}

(* df.index[[ind not in result.index for ind in df.index]]                 *)
NotIndexed_none(result, df) == <<>>
NotIndexed(result, df) ==
    SelectSeq(df.index, LAMBDA ind : ind \notin Range(result.index))

(* [col for col in df.columns if col not in result.columns]                *)
NewCols(result, df) ==
    SelectSeq(df.columns, LAMBDA col : col \notin Range(result.columns))

(* DataFrame.reindex: the rows of new_index, in that order; a row the      *)
(* frame does not have is all NaN.                                         *)
Reindex(df, new_index) ==
    DataFrame(new_index, df.columns,
              [k \in Range(new_index) |->
                  IF k \in Range(df.index) THEN df.data[k]
                  ELSE [c \in Range(df.columns) |-> NaN]])

(* result[new_cols] = numpy.nan                                            *)
AddColumns(result, new_cols) ==
    DataFrame(result.index, result.columns \o new_cols,
              [k \in Range(result.index) |->
                  [c \in Range(result.columns) \cup Range(new_cols) |->
                      IF c \in Range(result.columns) THEN result.data[k][c]
                      ELSE NaN]])

(* DataFrame.update builds mask = notna(this) for overwrite=False (and     *)
(* isna(that) for overwrite=True) and stores this.where(mask, that).       *)
UpdateCell_overwrite(this, that) == IF that = NaN THEN this ELSE that
UpdateCell(this, that) == IF notna(this) THEN this ELSE that

(* result.update(df, overwrite=False): df is aligned on result's index,    *)
(* and the columns the two frames share are updated cell by cell.          *)
Update(result, df) ==
    LET other == Reindex(df, result.index)
    IN DataFrame(result.index, result.columns,
                 [k \in Range(result.index) |->
                     [c \in Range(result.columns) |->
                         IF c \in Range(df.columns)
                         THEN UpdateCell(result.data[k][c], other.data[k][c])
                         ELSE result.data[k][c]]])

(* One pass of the loop over df_list[1:].                                  *)
FoldTable(result, df) ==
    LET not_indexed == NotIndexed(result, df)
        new_cols == NewCols(result, df)
        r1 == IF not_indexed # <<>>
              THEN Reindex(result, result.index \o not_indexed)
              ELSE result
        r2 == IF new_cols # <<>> THEN AddColumns(r1, new_cols) ELSE r1
    IN Update(r2, df)

RECURSIVE FoldFrom(_, _, _)
FoldFrom(result, df_list, i) ==
    IF i > Len(df_list) THEN result
    ELSE FoldFrom(FoldTable(result, df_list[i]), df_list, i + 1)

concat_and_update(df_list) == FoldFrom(df_list[1], df_list, 2)

----------------------------------------------------------------------------
(* The fold of _concat_and_update, one table at a time.  mrg.result is the *)
(* accumulator, mrg.df the table folded last, mrg.prev the accumulator     *)
(* before it and mrg.n the number of tables of df_list consumed.  The      *)
(* history fields keys, cols and first record, for the tables consumed so  *)
(* far, the keys and columns they have and, per cell, the value of the     *)
(* earliest table that has a non-missing value there.                      *)

(* The value a table has for a cell; missing when it lacks the row or the  *)
(* column.                                                                 *)
CellOf(t, k, c) ==
    IF k \in Range(t.index) /\ c \in Range(t.columns) THEN t.data[k][c]
    ELSE NaN

AllCells == StationTimeKeys \X Columns

FirstAfter(first, df) ==
    [kc \in AllCells |->
        IF first[kc] # NaN THEN first[kc] ELSE CellOf(df, kc[1], kc[2])]

InitMerge ==
    /\ res = ResIdle
    /\ req = ReqIdle
    /\ run = RunIdle
    /\ \E t \in Tables :
          mrg = [pc |-> "fold", n |-> 1, result |-> t, df |-> t,
                 prev |-> EmptyDataFrame,
                 keys |-> Range(t.index), cols |-> Range(t.columns),
                 first |-> FirstAfter([kc \in AllCells |-> NaN], t)]

FoldStep ==
    /\ mrg.pc = "fold"
    /\ mrg.n < MaxTables
    /\ \E df \in Tables :
          mrg' = [pc |-> "fold", n |-> mrg.n + 1,
                  result |-> FoldTable(mrg.result, df), df |-> df,
                  prev |-> mrg.result,
                  keys |-> mrg.keys \cup Range(df.index),
                  cols |-> mrg.cols \cup Range(df.columns),
                  first |-> FirstAfter(mrg.first, df)]
    /\ UNCHANGED <<res, req, run>>

ReturnResult ==
    /\ mrg.pc = "fold"
    /\ mrg' = [mrg EXCEPT !.pc = "done", !.df = EmptyDataFrame,
                          !.prev = EmptyDataFrame]
    /\ UNCHANGED <<res, req, run>>

NextMerge == FoldStep \/ ReturnResult

SpecMerge == InitMerge /\ [][NextMerge]_vars

(* C2: in the merge fold, a cell that holds a non-missing value in the     *)
(* accumulator holds exactly that value after the next fold step, and so   *)
(* after every later one, whatever the folded table contains.              *)
C2_NonMissingCellKept ==
    [][mrg.pc = "fold" =>
         \A kc \in AllCells :
            notna(CellOf(mrg.result, kc[1], kc[2])) =>
               CellOf(mrg'.result, kc[1], kc[2])
                  = CellOf(mrg.result, kc[1], kc[2])]_vars

(* A later table offers a different non-missing value for a cell the       *)
(* accumulator already defines, two fold steps into the list.              *)
C2_Witness ==
    /\ mrg.pc = "fold"
    /\ mrg.n = 3
    /\ \E kc \in AllCells :
          /\ notna(CellOf(mrg.prev, kc[1], kc[2]))
          /\ notna(CellOf(mrg.df, kc[1], kc[2]))
          /\ CellOf(mrg.df, kc[1], kc[2]) # CellOf(mrg.prev, kc[1], kc[2])
          /\ CellOf(mrg.result, kc[1], kc[2]) = CellOf(mrg.prev, kc[1], kc[2])

(* The cells in which two tables differ, and those both define with        *)
(* different non-missing values.                                           *)
DifferingCells(a, b) ==
    {kc \in AllCells : CellOf(a, kc[1], kc[2]) # CellOf(b, kc[1], kc[2])}

ConflictingCells(a, b) ==
    {kc \in AllCells : /\ notna(CellOf(a, kc[1], kc[2]))
                       /\ notna(CellOf(b, kc[1], kc[2]))
                       /\ CellOf(a, kc[1], kc[2]) # CellOf(b, kc[1], kc[2])}

(* C3: the merged table has as row keys the union of the inputs' keys, as  *)
(* columns the union of their columns, each key and column once, and each  *)
(* cell holds the value of the first table in list order with a            *)
(* non-missing value there; merging [A, B] and [B, A] gives the same keys  *)
(* and columns and differs exactly in the cells A and B both define with   *)
(* different values.                                                       *)
C3_UnionFirstWins ==
    mrg.pc \in {"fold", "done"} =>
       /\ Range(mrg.result.index) = mrg.keys
       /\ Len(mrg.result.index) = Cardinality(mrg.keys)
       /\ Range(mrg.result.columns) = mrg.cols
       /\ Len(mrg.result.columns) = Cardinality(mrg.cols)
       /\ \A kc \in AllCells :
             CellOf(mrg.result, kc[1], kc[2]) = mrg.first[kc]
       /\ (mrg.pc = "fold" /\ mrg.n = 2) =>
             LET ba == concat_and_update(<<mrg.df, mrg.prev>>)
             IN /\ Range(ba.index) = Range(mrg.result.index)
                /\ Range(ba.columns) = Range(mrg.result.columns)
                /\ DifferingCells(mrg.result, ba)
                      = ConflictingCells(mrg.prev, mrg.df)

(* Three tables folded: the second brings a new row and a new column, and  *)
(* the third redefines a cell of the first.                                *)
C3_Witness ==
    /\ mrg.pc = "fold"
    /\ mrg.n = 3
    /\ Len(mrg.result.index) = 2
    /\ Len(mrg.result.columns) = 2
    /\ Len(mrg.prev.index) = 2
    /\ Len(mrg.prev.columns) = 2
    /\ \E kc \in AllCells :
          /\ notna(mrg.first[kc])
          /\ notna(CellOf(mrg.df, kc[1], kc[2]))
          /\ mrg.first[kc] # CellOf(mrg.df, kc[1], kc[2])

(* Two tables that define the same cell with different values, merged in   *)
(* the order [A, B].                                                       *)
C3_WitnessConflict ==
    /\ mrg.pc = "fold"
    /\ mrg.n = 2
    /\ ConflictingCells(mrg.prev, mrg.df) # {}
    /\ Range(mrg.prev.index) # Range(mrg.df.index)

----------------------------------------------------------------------------
(* SurgeModelRequest.run from the loop over the tasks on: run.tasks is the *)
(* task list (each task reduced to its varlist), run.i the task of the     *)
(* current iteration, run.dataframe its data frame and run.df_list the     *)
(* tables gathered so far.  run.outcomes is a history field: per task      *)
(* attempted, whether AnalysisTask.run returned and the table it returned. *)

MaxTasks == 2
MaxRunCells == 1

RunVarlists == {<<Var("cwl_raw", "zeta", "LMSL")>>,
                <<Var("u_vel", "u-vel", "None")>>}

TaskLists == UNION {[1..n -> RunVarlists] : n \in 0..MaxTasks}

OutputDatums == {None, Some("mllw")}

(* The data frames get_subset can return for a task: one column per entry  *)
(* of the varlist, named as in the file.                                   *)
SubsetTables(varlist) ==
    LET cs == [i \in 1..Len(varlist) |-> varlist[i].varname_file]
    IN UNION {{DataFrame(ix, cs, d) :
                  d \in [Range(ix) -> [Range(cs) -> Values]]} :
              ix \in {o \in Orderings(StationTimeKeys) :
                         Len(o) * Len(cs) <= MaxRunCells}}

(* col_name_mapper of postprocess.                                         *)
col_name_mapper(varlist, col) ==
    LET i == CHOOSE j \in 1..Len(varlist) : varlist[j].varname_file = col
    IN varlist[i].varname_out

(* The columns postprocess converts to the output datum.                   *)
ConvertedColumns(varlist, output_datum) ==
    IF output_datum = None THEN {}
    ELSE {varlist[i].varname_out :
             i \in {j \in 1..Len(varlist) : varlist[j].datum # "None"}}

(* The data frames postprocess can leave in self.dataframe: the columns    *)
(* renamed, and the values of the converted columns as vdatum.convert      *)
(* returned them.                                                          *)
PostprocessTables(df, varlist, output_datum) ==
    LET cs == [i \in 1..Len(df.columns) |->
                  col_name_mapper(varlist, df.columns[i])]
        conv == ConvertedColumns(varlist, output_datum)
    IN {DataFrame(df.index, cs, d) :
           d \in {e \in [Range(df.index) -> [Range(cs) -> Values]] :
                     \A k \in Range(df.index) :
                        \A i \in 1..Len(cs) :
                           cs[i] \notin conv =>
                              e[k][cs[i]] = df.data[k][df.columns[i]]}}

(* The bare except of the loop: log a warning and go on with the next      *)
(* task.                                                                   *)
AfterException_abort(i, n) == n + 1
AfterException(i, n) == i + 1

LoopHead(i, n) == IF i > n THEN "gather" ELSE "open"

InitRun ==
    /\ res = ResIdle
    /\ req = ReqIdle
    /\ mrg = MrgIdle
    /\ \E tasks \in TaskLists, output_datum \in OutputDatums :
          run = [pc |-> LoopHead(1, Len(tasks)), tasks |-> tasks,
                 output_datum |-> output_datum, i |-> 1,
                 dataframe |-> EmptyDataFrame, df_list |-> <<>>,
                 outcomes |-> <<>>, result |-> EmptyDataFrame]

Caught ==
    LET j == AfterException(run.i, Len(run.tasks))
    IN run' = [run EXCEPT !.i = j, !.pc = LoopHead(j, Len(run.tasks)),
                          !.dataframe = EmptyDataFrame,
                          !.outcomes = Append(@, [ok |-> FALSE,
                                                  table |-> EmptyDataFrame])]

TaskOpenDataset ==
    /\ run.pc = "open"
    /\ \/ run' = [run EXCEPT !.pc = "subset"]
       \/ Caught
    /\ UNCHANGED <<res, req, mrg>>

TaskGetSubset ==
    /\ run.pc = "subset"
    /\ \/ \E df \in SubsetTables(run.tasks[run.i]) :
             run' = [run EXCEPT !.pc = "postprocess", !.dataframe = df]
       \/ Caught
    /\ UNCHANGED <<res, req, mrg>>

TaskPostprocess ==
    /\ run.pc = "postprocess"
    /\ \/ \E df \in PostprocessTables(run.dataframe, run.tasks[run.i],
                                      run.output_datum) :
             run' = [run EXCEPT !.i = @ + 1,
                                !.pc = LoopHead(run.i + 1, Len(run.tasks)),
                                !.dataframe = EmptyDataFrame,
                                !.df_list = Append(@, df),
                                !.outcomes = Append(@, [ok |-> TRUE,
                                                        table |-> df])]
       \/ Caught
    /\ UNCHANGED <<res, req, mrg>>

Gather ==
    /\ run.pc = "gather"
    /\ run' = [run EXCEPT !.pc = "done",
                          !.result = IF run.df_list # <<>>
                                     THEN concat_and_update(run.df_list)
                                     ELSE EmptyDataFrame]
    /\ UNCHANGED <<res, req, mrg>>

NextRun == TaskOpenDataset \/ TaskGetSubset \/ TaskPostprocess \/ Gather

SpecRun == InitRun /\ [][NextRun]_vars

(* The tables of the tasks that succeeded, in task order.                  *)
RECURSIVE SucceededTables(_)
SucceededTables(outcomes) ==
    IF outcomes = <<>> THEN <<>>
    ELSE (IF Head(outcomes).ok THEN <<Head(outcomes).table>> ELSE <<>>)
            \o SucceededTables(Tail(outcomes))

(* C1: a failure in open_dataset, get_subset or postprocess of a task is   *)
(* caught and the next task is run; once run returns every task has been   *)
(* attempted and the result is the merge of the tables of the tasks that   *)
(* succeeded, in task order, or the empty table when none succeeded.       *)
C1_FailuresIsolatedResultIsMergeOfSuccesses ==
    /\ run.pc \in {"open", "subset", "postprocess"} =>
          /\ Len(run.outcomes) = run.i - 1
          /\ run.i <= Len(run.tasks)
    /\ run.pc \in {"gather", "done"} => Len(run.outcomes) = Len(run.tasks)
    /\ run.pc = "done" =>
          LET ok == SucceededTables(run.outcomes)
          IN run.result = IF ok = <<>> THEN EmptyDataFrame
                          ELSE concat_and_update(ok)

(* The first task fails, the second succeeds, and the result is the        *)
(* second task's table.                                                    *)
C1_Witness ==
    /\ run.pc = "done"
    /\ Len(run.outcomes) = 2
    /\ ~run.outcomes[1].ok
    /\ run.outcomes[2].ok
    /\ run.result = run.outcomes[2].table
    /\ run.result.index # <<>>

(* Every task fails and the result is the empty table.                     *)
C1_WitnessAllFailed ==
    /\ run.pc = "done"
    /\ Len(run.tasks) = 2
    /\ \A j \in 1..Len(run.outcomes) : ~run.outcomes[j].ok
    /\ run.result = EmptyDataFrame

----------------------------------------------------------------------------
(* A request from the call of api.get_surge_model_at_stations to its       *)
(* return.  req holds the arguments of the call, the parsed options, the   *)
(* position in the call (pc), the versions and the task list of            *)
(* get_analysis_tasks as its loop over the versions builds it, the task    *)
(* of the current iteration of the loop of SurgeModelRequest.run (i), and  *)
(* the history fields opened (calls of open_dataset so far) and error      *)
(* (the exception or exit that ended the call).                            *)

RequestGridHours == 12

ApiModels == {"STOFS_2D_GLO", "STOFS_3D_ATL", "GFS", "HRRR", "stofs_2d_glo"}
ApiForecastTypes == {"nowcast", "Forecast", "hindcast"}
ApiGeometries == {"points", "Mesh", "grid", "polygon"}
ApiDataStores == {"AWS", "LOCAL"}
ApiVarLists == {<<>>, <<"cwl_raw">>, <<"cwl_bias_corrected">>,
                <<"cwl", "u_vel">>, <<"ps">>}
ApiDates ==
    {t \in QueryTimes : t % (RequestGridHours * TicksPerHour) = 0}
ApiEndDates == {None} \cup {Some(t) : t \in ApiDates}

(* str.lower on the option strings of the calls.                           *)
lower(str) ==
    CASE str = "Forecast" -> "forecast"
      [] str = "Mesh" -> "mesh"
      [] str = "AWS" -> "aws"
      [] str = "LOCAL" -> "local"
      [] str = "NOWCAST" -> "nowcast"
      [] str = "FORECAST" -> "forecast"
      [] str = "POINTS" -> "points"
      [] str = "MESH" -> "mesh"
      [] str = "GRID" -> "grid"
      [] str = "LMSL" -> "lmsl"
      [] str = "NAVD88" -> "navd88"
      [] str = "MLLW" -> "mllw"
      [] OTHER -> str

NoError == <<>>

(* The option parsing of get_surge_model_at_stations, in the order of the  *)
(* code: the first check that fails raises.                                *)
ParseError(model, forecast_type, file_geometry, data_store, start_date, end_date) ==
    IF model \notin {"STOFS_2D_GLO", "STOFS_3D_ATL", "GFS"}
    THEN <<"ValueError", "model", ModelOptions>>
    ELSE IF lower(forecast_type) \notin {"forecast", "nowcast"}
    THEN <<"ValueError", "forecast type", <<"NOWCAST", "FORECAST">> >>
    ELSE IF lower(file_geometry) \notin {"points", "mesh", "grid"}
    THEN <<"ValueError", "file geometry", <<"POINTS", "MESH", "GRID">> >>
    ELSE IF lower(data_store) \notin {"aws"}
    THEN <<"ValueError", "data store", DataStoreOptions>>
    ELSE IF lower(forecast_type) = "nowcast" /\ end_date = None
    THEN <<"TypeError", "end_date", <<>> >>
    ELSE IF lower(forecast_type) = "nowcast" /\ end_date[1] < start_date
    THEN <<"ValueError", "end_date", <<>> >>
    ELSE NoError

(* req_end_date: the start date for a forecast request.                    *)
ReqEndDate_given(forecast_type, start_date, end_date) ==
    IF end_date = None THEN start_date ELSE end_date[1]
ReqEndDate(forecast_type, start_date, end_date) ==
    IF lower(forecast_type) = "forecast" THEN start_date ELSE end_date[1]

(* The tasks the loop of SurgeModelRequest.run may run: the list that      *)
(* get_analysis_tasks returned, once it has returned.                      *)
RunnableTasks_eager(pc, tasks) == tasks
RunnableTasks(pc, tasks) == IF pc = "run" THEN tasks ELSE <<>>

Init ==
    /\ res = ResIdle
    /\ run = RunIdle
    /\ mrg = MrgIdle
    /\ \E model \in ApiModels, variables \in ApiVarLists,
          start_date \in ApiDates, end_date \in ApiEndDates,
          forecast_type \in ApiForecastTypes,
          file_geometry \in ApiGeometries, data_store \in ApiDataStores :
          req = [pc |-> "call", model |-> model, variables |-> variables,
                 start_date |-> start_date, end_date |-> end_date,
                 forecast_type |-> forecast_type,
                 file_geometry |-> file_geometry, data_store |-> data_store,
                 req_end_date |-> 0, versions |-> <<>>, vi |-> 1,
                 tasks |-> <<>>, i |-> 1, stage |-> "idle", opened |-> 0,
                 df_count |-> 0, empty_result |-> FALSE, error |-> NoError]

(* api.py lines 87-129.                                                    *)
ParseOptions ==
    /\ req.pc = "call"
    /\ LET e == ParseError(req.model, req.forecast_type, req.file_geometry,
                           req.data_store, req.start_date, req.end_date)
       IN IF e # NoError
          THEN req' = [req EXCEPT !.pc = "error", !.error = e]
          ELSE req' = [req EXCEPT !.pc = "parsed",
                         !.forecast_type = lower(req.forecast_type),
                         !.file_geometry = lower(req.file_geometry),
                         !.data_store = lower(req.data_store),
                         !.req_end_date = ReqEndDate(req.forecast_type,
                                             req.start_date, req.end_date)]
    /\ UNCHANGED <<res, run, mrg>>

ReqSelf == CreatorNamed(req.model)

(* api.py lines 135-146 and SurgeModelRequest.__init__: get_model and      *)
(* get_data_store recognise every option the parsing lets through.         *)
CreateRequest ==
    /\ req.pc = "parsed"
    /\ req' = [req EXCEPT !.pc = "created"]
    /\ UNCHANGED <<res, run, mrg>>

(* SurgeModelRequest.run calls get_analysis_tasks: the geometry dispatch   *)
(* and get_versions_by_date.                                               *)
BeginGetAnalysisTasks ==
    /\ req.pc = "created"
    /\ IF ~GeometrySupported(ReqSelf, req.file_geometry)
       THEN req' = [req EXCEPT !.pc = "fatal",
                       !.error = <<"ValueError", "geometry", <<>> >>]
       ELSE req' = [req EXCEPT !.pc = "versions", !.vi = 1,
                       !.versions = get_versions_by_date(ReqSelf,
                                       req.start_date, req.req_end_date)]
    /\ UNCHANGED <<res, run, mrg>>

(* One pass of the loop over the versions, and the return of the list      *)
(* once the loop is over.                                                  *)
CreateVersionTasks ==
    /\ req.pc = "versions"
    /\ req.stage = "idle"
    /\ IF req.vi > Len(req.versions)
       THEN req' = [req EXCEPT !.pc = "run"]
       ELSE LET r == VersionTasks(ReqSelf, req.variables, Stations,
                                  req.forecast_type, req.file_geometry,
                                  req.versions[req.vi])
            IN IF r.exit
               THEN req' = [req EXCEPT !.pc = "fatal",
                               !.error = <<"SystemExit", r.message[1],
                                           <<r.message[2], r.message[3]>> >>]
               ELSE req' = [req EXCEPT !.vi = @ + 1,
                                       !.tasks = @ \o r.tasks]
    /\ UNCHANGED <<res, run, mrg>>

(* t.run: open_dataset, which returns or raises.                           *)
RequestTaskOpen ==
    /\ req.pc \in {"versions", "run"}
    /\ req.stage = "idle"
    /\ req.i <= Len(RunnableTasks(req.pc, req.tasks))
    /\ \/ req' = [req EXCEPT !.opened = @ + 1, !.stage = "opened"]
       \/ req' = [req EXCEPT !.opened = @ + 1, !.i = @ + 1]
    /\ UNCHANGED <<res, run, mrg>>

(* t.run: get_subset and postprocess, which return the table appended to   *)
(* df_list or raise.                                                       *)
RequestTaskFinish ==
    /\ req.stage = "opened"
    /\ \/ req' = [req EXCEPT !.stage = "idle", !.i = @ + 1,
                             !.df_count = @ + 1]
       \/ req' = [req EXCEPT !.stage = "idle", !.i = @ + 1]
    /\ UNCHANGED <<res, run, mrg>>

(* request.py lines 136-141 and the return of the api call.                *)
RequestReturn ==
    /\ req.pc = "run"
    /\ req.stage = "idle"
    /\ req.i > Len(req.tasks)
    /\ req' = [req EXCEPT !.pc = "done", !.empty_result = (req.df_count = 0)]
    /\ UNCHANGED <<res, run, mrg>>

Next ==
    \/ ParseOptions
    \/ CreateRequest
    \/ BeginGetAnalysisTasks
    \/ CreateVersionTasks
    \/ RequestTaskOpen
    \/ RequestTaskFinish
    \/ RequestReturn

Spec == Init /\ [][Next]_vars

(* C10: a request that ended with a configuration-level error (an option   *)
(* not recognized, end_date before start_date, no or several Field Sources *)
(* for a requested variable in an overlapping version) has not called      *)
(* open_dataset on any task; and whenever open_dataset has been called,    *)
(* the validation is over and get_analysis_tasks has returned the whole    *)
(* task list.                                                              *)
C10_NoTaskOpenedBeforeConfigurationError ==
    /\ req.pc \in {"error", "fatal"} =>
          /\ req.error # NoError
          /\ req.opened = 0
    /\ req.opened > 0 =>
          /\ req.pc \in {"run", "done"}
          /\ req.vi > Len(req.versions)
          /\ req.error = NoError

(* The request across the v2.0 / v2.1 boundary of STOFS-2D-Global for a    *)
(* variable only v2.1 has: the tasks of v2.1 exist when v2.0 ends the      *)
(* request, and none has been opened.                                      *)
C10_Witness ==
    /\ req.pc = "fatal"
    /\ req.error[1] = "SystemExit"
    /\ req.tasks # <<>>
    /\ req.opened = 0

(* A request that ran its tasks.                                           *)
C10_WitnessRan ==
    /\ req.pc = "done"
    /\ req.opened > 1
    /\ Len(req.versions) > 1

----------------------------------------------------------------------------
(* Requests with a valid configuration.                                    *)

(* The output names the GFS catalog literal writes for its sfluxgrb grid   *)
(* files (the list the dataclass binds to file_geometry).                  *)
GFSWrittenVariables == {"ps", "u10", "v10"}

(* The output names the HRRR catalog literal writes for its air mesh       *)
(* files.                                                                  *)
HRRRWrittenVariables == {"ps", "u10", "v10"}

(* The catalog of the model writes, for the version, a field source of     *)
(* the geometry with the variable.                                         *)
CatalogWrites(self, version, var, geometry) ==
    IF self.name = "GFS"
    THEN geometry = GRID /\ var \in GFSWrittenVariables
    ELSE IF self.name = "HRRR"
    THEN geometry = MESH /\ var \in HRRRWrittenVariables
    ELSE \E fs \in Range(CatalogEntry(self, version).field_sources) :
            fs.file_geometry = geometry /\ var \in Range(get_vars(fs))

(* The options were accepted and every overlapping version writes every    *)
(* requested variable for the geometry.                                    *)
ValidConfiguration ==
    /\ req.pc \notin {"call", "error", "parsed", "created"}
    /\ GeometrySupported(ReqSelf, req.file_geometry)
    /\ \A k \in 1..Len(req.versions) : \A j \in 1..Len(req.variables) :
          CatalogWrites(ReqSelf, req.versions[k].ver, req.variables[j],
                        req.file_geometry)

----------------------------------------------------------------------------
(* The file references of a GFS task.                                      *)

RECURSIVE Concat(_)
Concat(ss) == IF ss = <<>> THEN <<>> ELSE Head(ss) \o Concat(Tail(ss))

(* The reference files kerchunk_grib returns for one GRIB file: one per    *)
(* message of var_filter (u10, v10, sp), in message order.                 *)
GribMessages == <<"message0", "message1", "message2">>

(* The references of the files of the init times and lead times, in        *)
(* submission order: by init time, then lead time, then message.           *)
SubmissionOrderReferences(init_dates, lead_times) ==
    Concat([i \in 1..Len(init_dates) |->
              Concat([j \in 1..Len(lead_times[i]) |->
                        [m \in 1..Len(GribMessages) |->
                            <<init_dates[i], lead_times[i][j],
                              GribMessages[m]>>]])])

GFSTimes(forecast_type, start_date, end_date) ==
    IF forecast_type = FORECAST
    THEN GFS_get_init_time_forecast(GFSTaskCreator, start_date)
    ELSE GFS_get_init_times_nowcast(GFSTaskCreator, start_date, end_date)

(* C12: get_analysis_tasks of GFS, for a variable of its grid files,       *)
(* returns one task whose file references are the per-file reference       *)
(* lists concatenated in submission order (init time, then lead time,      *)
(* then message), whatever the order the reference generation completes.   *)
C12_GFSReferencesInSubmissionOrder ==
    (/\ res.op = "get_analysis_tasks"
     /\ res.model = "GFS"
     /\ res.geometry = GRID
     /\ res.variables = <<"ps">>) =>
       /\ ~res.tasks.exit
       /\ Len(res.tasks.tasks) = 1
       /\ LET t == GFSTimes(res.forecast_type, res.start_date, res.end_date)
          IN res.tasks.tasks[1].filename
                = SubmissionOrderReferences(t.init_dates, t.lead_times)

----------------------------------------------------------------------------
(* The nowcast lead times of GFS.                                          *)

(* The valid times init + lead of the files, in returned order.            *)
ValidTimes(init_dates, lead_times) ==
    Concat([i \in 1..Len(init_dates) |->
              [j \in 1..Len(lead_times[i]) |->
                  init_dates[i] + Hours(lead_times[i][j])]])

(* What get_init_times_nowcast of GFS returned: exactly the cycles whose    *)
(* window [c, c + nowcast_period) meets [start, end], each once; for every *)
(* cycle a non-empty range of consecutive lead hours within 0..5; and as   *)
(* valid times c + lead, in returned order, the consecutive whole hours    *)
(* from the last whole hour <= start to the hour last.                     *)
GFSNowcastCycles ==
    {c \in CycleTimesNear(ResSelf, DayOf(res.start_date) - 2,
                          DayOf(res.end_date) + 3) :
        \E t \in res.start_date..res.end_date :
           c <= t /\ t < c + Hours(ResSelf.nowcast_period)}

GFSNowcastShape(last) ==
    LET first == (res.start_date \div TicksPerHour) * TicksPerHour
    IN /\ Range(res.init_dates) = GFSNowcastCycles
       /\ Len(res.init_dates) = Cardinality(GFSNowcastCycles)
       /\ Len(res.lead_times) = Len(res.init_dates)
       /\ \A i \in 1..Len(res.lead_times) :
             /\ res.lead_times[i] # <<>>
             /\ \A j \in 1..Len(res.lead_times[i]) :
                   /\ res.lead_times[i][j] \in 0..5
                   /\ j > 1 => res.lead_times[i][j]
                                  = res.lead_times[i][j - 1] + 1
       /\ ValidTimes(res.init_dates, res.lead_times)
             = [k \in 1..((last - first) \div TicksPerHour + 1) |->
                   first + (k - 1) * TicksPerHour]

(* The first whole hour >= end, and the last whole hour <= end.            *)
HourAtOrAfterEnd == (-((-res.end_date) \div TicksPerHour)) * TicksPerHour
HourAtOrBeforeEnd == (res.end_date \div TicksPerHour) * TicksPerHour

(* C13 as stated: GFS get_init_times_nowcast(start, end) selects exactly   *)
(* the cycles whose window [c, c + 6h) meets [start, end], gives each a    *)
(* non-empty contiguous lead range within 0..5, and the valid times are    *)
(* the consecutive whole hours from the last whole hour <= start to the    *)
(* first whole hour >= end.                                                *)
C13_ValidTimesReachHourAfterEnd ==
    (res.op = "get_init_times_nowcast" /\ ResSelf = GFSTaskCreator) =>
        GFSNowcastShape(HourAtOrAfterEnd)

(* C13 (amended): as stated, except that the valid times stop at the last  *)
(* whole hour <= end when the first whole hour >= end is outside the       *)
(* window of every selected cycle (end less than an hour before the end    *)
(* of a cycle's window).                                                   *)
C13_ValidTimesClippedAtCycleWindow ==
    (res.op = "get_init_times_nowcast" /\ ResSelf = GFSTaskCreator) =>
        GFSNowcastShape(
            IF \E c \in GFSNowcastCycles :
                  /\ c <= HourAtOrAfterEnd
                  /\ HourAtOrAfterEnd < c + Hours(ResSelf.nowcast_period)
            THEN HourAtOrAfterEnd
            ELSE HourAtOrBeforeEnd)

(* A query that ends in the last hour of a cycle's window, off the whole   *)
(* hour: the valid times stop before end.                                  *)
C13_Witness ==
    /\ res.op = "get_init_times_nowcast"
    /\ ResSelf = GFSTaskCreator
    /\ res.end_date % TicksPerHour # 0
    /\ Len(res.init_dates) >= 2
    /\ LET v == ValidTimes(res.init_dates, res.lead_times)
       IN v[Len(v)] < res.end_date

(* A query that starts and ends off the whole hour, takes files of several *)
(* cycles, and whose valid times reach past end.                           *)
C13_WitnessOffHour ==
    /\ res.op = "get_init_times_nowcast"
    /\ ResSelf = GFSTaskCreator
    /\ res.start_date % TicksPerHour # 0
    /\ res.end_date % TicksPerHour # 0
    /\ Len(res.init_dates) >= 2
    /\ Len(res.lead_times[1]) < 6
    /\ Len(res.lead_times[Len(res.lead_times)]) < 6

----------------------------------------------------------------------------
(* The task list of get_analysis_tasks.                                    *)

(* A sequence without its repeated elements, each kept at its first        *)
(* occurrence.                                                             *)
RECURSIVE FirstOccurrences(_)
FirstOccurrences(s) ==
    IF s = <<>> THEN <<>>
    ELSE LET d == FirstOccurrences(SubSeq(s, 1, Len(s) - 1))
         IN IF s[Len(s)] \in Range(d) THEN d ELSE Append(d, s[Len(s)])

(* The field source of the version and geometry that declares the          *)
(* variable.                                                               *)
SourceOf(self, version, var, geometry) ==
    CHOOSE fs \in Range(CatalogEntry(self, version).field_sources) :
        fs.file_geometry = geometry /\ var \in Range(get_vars(fs))

(* By version in catalog order, then by field source in order of first     *)
(* resolution from the variable list, then by init time: the version, the  *)
(* filename template and the init time of the task expected there.         *)
ExpectedTaskKeys(self, variables, forecast_type, geometry, start_date, end_date) ==
    LET versions == get_versions_by_date(self, start_date, end_date)
    IN Concat([k \in 1..Len(versions) |->
          LET srcs == FirstOccurrences(
                         [j \in 1..Len(variables) |->
                             SourceOf(self, versions[k].ver, variables[j],
                                      geometry)])
              inits == InitTimes(self, forecast_type, versions[k]).init_dates
          IN Concat([j \in 1..Len(srcs) |->
                       [i \in 1..Len(inits) |->
                           <<versions[k].ver, srcs[j].filename_template,
                             inits[i]>>]])])

TaskKeys(tasks) ==
    [k \in 1..Len(tasks) |->
        <<tasks[k].version, tasks[k].filename.template, tasks[k].init>>]

(* The call asks a model for variables that every overlapping version      *)
(* writes for the geometry.                                                *)
CallForWrittenVariables ==
    /\ res.op = "get_analysis_tasks"
    /\ \A k \in 1..Len(get_versions_by_date(ResSelf, res.start_date,
                                            res.end_date)) :
          \A j \in 1..Len(res.variables) :
             CatalogWrites(ResSelf,
                 get_versions_by_date(ResSelf, res.start_date,
                                      res.end_date)[k].ver,
                 res.variables[j], res.geometry)

TasksPerSourceAndInit ==
    /\ ~res.tasks.exit
    /\ TaskKeys(res.tasks.tasks)
          = ExpectedTaskKeys(ResSelf, res.variables, res.forecast_type,
                             res.geometry, res.start_date, res.end_date)
    /\ \A k \in 1..Len(res.tasks.tasks) :
          k > 1 /\ res.tasks.tasks[k].version = res.tasks.tasks[k - 1].version
                /\ res.tasks.tasks[k].filename.template
                      = res.tasks.tasks[k - 1].filename.template
             => res.tasks.tasks[k - 1].init < res.tasks.tasks[k].init

(* C14 for the STOFS models alone.                                         *)
STOFSTasksPerSourceAndInit ==
    (/\ CallForWrittenVariables
     /\ \/ res.model = "STOFS_2D_GLO"
        \/ res.model = "STOFS_3D_ATL" /\ res.geometry = POINTS) =>
       TasksPerSourceAndInit

(* C14: for STOFS-2D-Global, STOFS-3D-Atlantic points and HRRR,            *)
(* get_analysis_tasks returns, per overlapping version, exactly one task   *)
(* per distinct resolved field source and init time, ordered by version    *)
(* in catalog order, then field source in order of first resolution, then  *)
(* init time ascending.                                                    *)
C14_OneTaskPerSourceAndInit ==
    (/\ CallForWrittenVariables
     /\ \/ res.model \in {"STOFS_2D_GLO", "HRRR"}
        \/ res.model = "STOFS_3D_ATL" /\ res.geometry = POINTS) =>
       TasksPerSourceAndInit

----------------------------------------------------------------------------
(* The variable list of a task.                                            *)

(* The field source a task was built from: the one of its version and of   *)
(* the geometry of the call with the task's filename template.             *)
SourceOfTask(self, task, geometry) ==
    CHOOSE fs \in Range(CatalogEntry(self, task.version).field_sources) :
        /\ fs.file_geometry = geometry
        /\ fs.filename_template = task.filename.template

(* C15: the variable list of every task consists of exactly the variable   *)
(* entries of its field source whose output name was requested, in the     *)
(* field source's declaration order, and is not empty.                     *)
C15_TaskVariablesAreRequestedOnes ==
    (res.op = "get_analysis_tasks" /\ ~res.tasks.exit) =>
       \A k \in 1..Len(res.tasks.tasks) :
          LET task == res.tasks.tasks[k]
              fs == SourceOfTask(ResSelf, task, res.geometry)
              wanted == {i \in 1..Len(fs.variables) :
                           fs.variables[i].varname_out
                              \in Range(res.variables)}
          IN /\ task.varlist # <<>>
             /\ Len(task.varlist) = Cardinality(wanted)
             /\ \A j \in 1..Len(task.varlist) :
                   /\ task.varlist[j].varname_out \in Range(res.variables)
                   /\ \E i \in wanted : fs.variables[i] = task.varlist[j]
             /\ \A j1, j2 \in 1..Len(task.varlist) :
                   j1 < j2 =>
                      \E i1, i2 \in wanted :
                         /\ i1 < i2
                         /\ fs.variables[i1] = task.varlist[j1]
                         /\ fs.variables[i2] = task.varlist[j2]

(* A request for one of the two variables of a velocity file, among other  *)
(* variables: the task of that file carries the requested one only.        *)
C15_Witness ==
    /\ res.op = "get_analysis_tasks"
    /\ ~res.tasks.exit
    /\ \E k \in 1..Len(res.tasks.tasks) :
          LET task == res.tasks.tasks[k]
          IN /\ Len(task.varlist) = 1
             /\ Len(SourceOfTask(ResSelf, task, res.geometry).variables) = 2

(* A request for both variables of a velocity file: one task list entry    *)
(* with the two, in declaration order.                                     *)
C15_WitnessBoth ==
    /\ res.op = "get_analysis_tasks"
    /\ ~res.tasks.exit
    /\ \E k \in 1..Len(res.tasks.tasks) :
          Len(res.tasks.tasks[k].varlist) = 2

----------------------------------------------------------------------------
(* calc_inv_dist_wts (analysis_task_mesh.py): inverse distance weights of  *)
(* the k nearest nodes of each station.  Distances are whole numbers of a  *)
(* length unit and the floating point quotients are exact fractions        *)
(* <<numerator, denominator>>, kept in lowest terms.                       *)

MaxStations == 2
MaxNeighbours == 3
MaxDist == 3
MaxExp == 2

RECURSIVE Gcd(_, _)
Gcd(a, b) == IF b = 0 THEN a ELSE Gcd(b, a % b)

Frac(n, d) == LET g == Gcd(n, d) IN IF g = 0 THEN <<n, d>> ELSE <<n \div g, d \div g>>
FracAdd(a, b) == Frac(a[1] * b[2] + b[1] * a[2], a[2] * b[2])
FracDiv(a, b) == Frac(a[1] * b[2], a[2] * b[1])
FracMul(a, b) == Frac(a[1] * b[1], a[2] * b[2])

RECURSIVE FracSum(_)
FracSum(s) == IF s = <<>> THEN Frac(0, 1) ELSE FracAdd(Head(s), FracSum(Tail(s)))

RECURSIVE Pow(_, _)
Pow(d, p) == IF p = 0 THEN 1 ELSE d * Pow(d, p - 1)

(* numpy.any(dists == 0.0, axis=1, keepdims=True), for one row.            *)
AnyZero_all_rows(dists, row) ==
    \E r \in 1..Len(dists) : \E j \in 1..Len(dists[r]) : dists[r][j] = 0
AnyZero(dists, row) == \E j \in 1..Len(dists[row]) : dists[row][j] = 0

(* numpy.where(dists == 0.0, 1.0, ~any_zero / (dists ** exponent))         *)
RawWeight_no_power(dists, row, j, exponent) ==
    IF dists[row][j] = 0 THEN Frac(1, 1)
    ELSE Frac(IF AnyZero(dists, row) THEN 0 ELSE 1, dists[row][j])
RawWeight(dists, row, j, exponent) ==
    IF dists[row][j] = 0 THEN Frac(1, 1)
    ELSE Frac(IF AnyZero(dists, row) THEN 0 ELSE 1,
              Pow(dists[row][j], exponent))

(* wts / numpy.sum(wts, axis=1, keepdims=True)                             *)
calc_inv_dist_wts(dists, exponent) ==
    [row \in 1..Len(dists) |->
        LET raw == [j \in 1..Len(dists[row]) |->
                       RawWeight(dists, row, j, exponent)]
        IN [j \in 1..Len(raw) |-> FracDiv(raw[j], FracSum(raw))]]

DistanceArrays ==
    UNION {[1..n -> [1..MaxNeighbours -> 0..MaxDist]] : n \in 1..MaxStations}

InitWeights ==
    /\ req = ReqIdle
    /\ run = RunIdle
    /\ mrg = MrgIdle
    /\ \E dists \in DistanceArrays, exponent \in 0..MaxExp :
          res = [op |-> "none", distances |-> dists, exponent |-> exponent,
                 wts |-> <<>>]

CallCalcInvDistWts ==
    /\ res.op = "none"
    /\ res' = [res EXCEPT !.op = "calc_inv_dist_wts",
                          !.wts = calc_inv_dist_wts(res.distances,
                                                    res.exponent)]
    /\ UNCHANGED <<req, run, mrg>>

NextWeights == CallCalcInvDistWts

SpecWeights == InitWeights /\ [][NextWeights]_vars

(* C16: in a row of distances with no zero entry and for an exponent       *)
(* p > 0, the weights are positive, proportional to 1 / d^p and sum to 1.  *)
C16_WeightsProportionalPositiveSumToOne ==
    (res.op = "calc_inv_dist_wts" /\ res.exponent > 0) =>
       \A row \in 1..Len(res.distances) :
          (\A j \in 1..MaxNeighbours : res.distances[row][j] # 0) =>
             /\ FracSum(res.wts[row]) = Frac(1, 1)
             /\ \A j \in 1..MaxNeighbours :
                   /\ res.wts[row][j][1] > 0
                   /\ res.wts[row][j][2] > 0
             /\ \A i, j \in 1..MaxNeighbours :
                   FracMul(res.wts[row][i],
                           Frac(Pow(res.distances[row][i], res.exponent), 1))
                 = FracMul(res.wts[row][j],
                           Frac(Pow(res.distances[row][j], res.exponent), 1))

(* A row of three different non-zero distances, exponent 2, next to a row  *)
(* that has a zero.                                                        *)
C16_Witness ==
    /\ res.op = "calc_inv_dist_wts"
    /\ res.exponent = 2
    /\ Len(res.distances) = 2
    /\ res.distances[1] = <<1, 2, 3>>
    /\ res.distances[2][1] = 0
    /\ res.wts[1] = <<Frac(36, 49), Frac(9, 49), Frac(4, 49)>>

ZeroIndices(row) == {j \in 1..Len(row) : row[j] = 0}

(* The row of weights is 1 at exactly one index, a zero distance, and 0    *)
(* at every other index.                                                   *)
OneHotAtZero(dists_row, wts_row) ==
    \E i \in ZeroIndices(dists_row) :
       \A j \in 1..Len(wts_row) :
          wts_row[j] = IF j = i THEN Frac(1, 1) ELSE Frac(0, 1)

(* Each row of the result is what the function returns for that row alone. *)
RowsIndependent ==
    \A row \in 1..Len(res.distances) :
       res.wts[row] = calc_inv_dist_wts(<<res.distances[row]>>, res.exponent)[1]

C17_WitnessTwoZeros ==
    /\ res.op = "calc_inv_dist_wts"
    /\ res.distances[1] = <<0, 0, 3>>
    /\ res.wts[1] = <<Frac(1, 2), Frac(1, 2), Frac(0, 1)>>

----------------------------------------------------------------------------
(* extract_stations_by_nos_id (analysis_task.py): rows of a points dataset *)
(* for a list of station identifiers.  Names and identifiers are sequences *)
(* of characters; a data value is named by the dataset cell it comes from. *)

MaxNameLen == 2
MaxDsStations == 3
MaxIds == 2
MaxTimes == 2

Digits == {"1", "2"}
Names == UNION {[1..n -> Digits] : n \in 1..MaxNameLen}
StationDatasets == UNION {[1..n -> Names] : n \in 1..MaxDsStations}
StationIdLists == UNION {[1..n -> Names] : n \in 0..MaxIds}

(* nos_id in nm.decode('utf-8'): nos_id is a contiguous part of nm.        *)
Contains(nos_id, nm) ==
    \E off \in 0..Len(nm) :
       /\ off + Len(nos_id) <= Len(nm)
       /\ \A i \in 1..Len(nos_id) : nm[off + i] = nos_id[i]

obs_name_in_model(ds, nos_id) == [s \in 1..Len(ds) |-> Contains(nos_id, ds[s])]

NumMatches(ds, nos_id) ==
    Cardinality({s \in 1..Len(ds) : obs_name_in_model(ds, nos_id)[s]})

(* ds.loc[dict(station=obs_name_in_model)]                                 *)
(*   .assign_coords(station=[nos_id]).to_dataframe(('station', 'time'))    *)
station_df_model_name(ds, nos_id) ==
    LET s == CHOOSE s \in 1..Len(ds) : obs_name_in_model(ds, nos_id)[s]
    IN [t \in 1..MaxTimes |->
           [station |-> ds[s], time |-> t, station_name |-> ds[s],
            cell |-> <<s, t>>]]
station_df(ds, nos_id) ==
    LET s == CHOOSE s \in 1..Len(ds) : obs_name_in_model(ds, nos_id)[s]
    IN [t \in 1..MaxTimes |->
           [station |-> nos_id, time |-> t, station_name |-> ds[s],
            cell |-> <<s, t>>]]

InitStations ==
    /\ req = ReqIdle
    /\ run = RunIdle
    /\ mrg = MrgIdle
    /\ \E ds \in StationDatasets, ids \in StationIdLists :
          res = [op |-> "extract_stations_by_nos_id", pc |-> "loop",
                 ds |-> ds, station_id_list |-> ids, i |-> 1,
                 result |-> <<>>, warnings |-> <<>>]

StationsLoop == res.pc = "loop" /\ res.i <= Len(res.station_id_list)

WarnMoreThanOne ==
    /\ StationsLoop
    /\ NumMatches(res.ds, res.station_id_list[res.i]) > 1
    /\ res' = [res EXCEPT !.i = @ + 1,
                          !.warnings = Append(@, <<"more than one",
                                                   res.station_id_list[res.i]>>)]
    /\ UNCHANGED <<req, run, mrg>>

WarnNoMatch ==
    /\ StationsLoop
    /\ NumMatches(res.ds, res.station_id_list[res.i]) = 0
    /\ res' = [res EXCEPT !.i = @ + 1,
                          !.warnings = Append(@, <<"no match",
                                                   res.station_id_list[res.i]>>)]
    /\ UNCHANGED <<req, run, mrg>>

ConcatStation ==
    /\ StationsLoop
    /\ NumMatches(res.ds, res.station_id_list[res.i]) = 1
    /\ res' = [res EXCEPT !.i = @ + 1,
                          !.result = @ \o station_df(res.ds,
                                                     res.station_id_list[res.i])]
    /\ UNCHANGED <<req, run, mrg>>

ReturnStations ==
    /\ res.pc = "loop"
    /\ res.i > Len(res.station_id_list)
    /\ res' = [res EXCEPT !.pc = "returned"]
    /\ UNCHANGED <<req, run, mrg>>

NextStations ==
    \/ WarnMoreThanOne
    \/ WarnNoMatch
    \/ ConcatStation
    \/ ReturnStations

SpecStations == InitStations /\ [][NextStations]_vars

(* Rows of the returned table that carry the identifier as their station.  *)
RowsLabelled(nos_id) ==
    {k \in 1..Len(res.result) : res.result[k].station = nos_id}

(* Positions of an identifier in the requested list.                       *)
Requests(nos_id) ==
    {i \in 1..Len(res.station_id_list) : res.station_id_list[i] = nos_id}

(* C18: in the returned table, an identifier contained in exactly one      *)
(* dataset station name has that station's rows, one per time, labelled    *)
(* with the identifier; an identifier contained in no name or in several   *)
(* has no row; every identifier of the list has been processed.            *)
C18_OneMatchGivesRowsElseNoRow ==
    (res.op = "extract_stations_by_nos_id" /\ res.pc = "returned") =>
       /\ res.i = Len(res.station_id_list) + 1
       /\ \A i \in 1..Len(res.station_id_list) :
             LET nos_id == res.station_id_list[i]
                 matching == {s \in 1..Len(res.ds) : Contains(nos_id, res.ds[s])}
             IN IF Cardinality(matching) = 1
                THEN /\ \A s \in matching, t \in 1..MaxTimes :
                           Cardinality({k \in RowsLabelled(nos_id) :
                                           res.result[k].cell = <<s, t>>})
                              = Cardinality(Requests(nos_id))
                     /\ \A k \in RowsLabelled(nos_id) :
                           res.result[k].cell[1] \in matching
                ELSE RowsLabelled(nos_id) = {}
       /\ \A k \in 1..Len(res.result) :
             Requests(res.result[k].station) # {}

(* An identifier matching two names is followed by one matching a single   *)
(* name that differs from the identifier; only the second has rows.        *)
C18_Witness ==
    /\ res.op = "extract_stations_by_nos_id"
    /\ res.pc = "returned"
    /\ Len(res.station_id_list) = 2
    /\ NumMatches(res.ds, res.station_id_list[1]) > 1
    /\ NumMatches(res.ds, res.station_id_list[2]) = 1
    /\ Len(res.result) = MaxTimes
    /\ \A k \in 1..Len(res.result) :
          /\ res.result[k].station = res.station_id_list[2]
          /\ res.result[k].station_name # res.station_id_list[2]
    /\ Len(res.warnings) = 1

(* An identifier matching no name is followed by one matching one name.    *)
C18_WitnessNoMatch ==
    /\ res.op = "extract_stations_by_nos_id"
    /\ res.pc = "returned"
    /\ Len(res.station_id_list) = 2
    /\ NumMatches(res.ds, res.station_id_list[1]) = 0
    /\ NumMatches(res.ds, res.station_id_list[2]) = 1
    /\ RowsLabelled(res.station_id_list[2]) = 1..MaxTimes

----------------------------------------------------------------------------
(* FieldSource.get_filename (field_source.py) called directly, with any    *)
(* template, init datetime and namespace.                                  *)

MaxNamespace == 2

FilenameTemplates ==
    {"dir/f.nc", "dir/{yyyymmdd}/f.t{hh}z.nc", "dir/f.t{lead}z.nc",
     "dir/{yyyymmdd}/f.t{hh}z.{lead}.nc", "dir/{hh}/f.t{hh}z.nc",
     "dir/f.{member}.{lead}.nc"}

NamespaceKeys == {"lead", "member", "hh", "yyyymmdd"}
NamespaceValues == {"003", "07"}

(* Python dicts of at most MaxNamespace keys: no key twice.                *)
NamespaceDicts ==
    UNION {{ns \in [1..n -> NamespaceKeys \X NamespaceValues] :
               \A i, j \in 1..n : ns[i][1] = ns[j][1] => i = j}
           : n \in 0..MaxNamespace}

TestFieldSource(template) ==
    FieldSource(template, <<Var("cwl_bias_corrected", "zeta", "MSL")>>,
                PointCoords, POINTS, "nc")

InitFilename ==
    /\ req = ReqIdle
    /\ run = RunIdle
    /\ mrg = MrgIdle
    /\ \E template \in FilenameTemplates, namespace \in NamespaceDicts,
          init_datetime \in {None} \cup {Some(t) : t \in QueryTimes} :
          res = [op |-> "none", self |-> TestFieldSource(template),
                 init_datetime |-> init_datetime, namespace |-> namespace,
                 result |-> None, self_after |-> None,
                 namespace_after |-> None]

(* The call returns a string.                                              *)
GetFilenameReturns ==
    /\ res.op = "none"
    /\ LET r == get_filename(res.self, res.init_datetime, res.namespace)
       IN /\ r.error = None
          /\ res' = [res EXCEPT !.op = "get_filename", !.result = r,
                                !.self_after = Some(res.self),
                                !.namespace_after = Some(res.namespace)]
    /\ UNCHANGED <<req, run, mrg>>

(* The call raises.                                                        *)
GetFilenameRaises ==
    /\ res.op = "none"
    /\ LET r == get_filename(res.self, res.init_datetime, res.namespace)
       IN /\ r.error # None
          /\ res' = [res EXCEPT !.op = "get_filename", !.result = r,
                                !.self_after = Some(res.self),
                                !.namespace_after = Some(res.namespace)]
    /\ UNCHANGED <<req, run, mrg>>

NextFilename == GetFilenameReturns \/ GetFilenameRaises

SpecFilename == InitFilename /\ [][NextFilename]_vars

(* The value the template's i-th field stands for: the date or two-digit   *)
(* hour of the init datetime for {yyyymmdd} and {hh}, else the namespace   *)
(* value.                                                                  *)
ExpectedFieldValue(field) ==
    IF field = "yyyymmdd"
    THEN <<"dt", <<2024, 5, 13 + (res.init_datetime[1] \div TicksPerDay)>>>>
    ELSE IF field = "hh"
    THEN LET h == (res.init_datetime[1] % TicksPerDay) \div TicksPerHour
         IN <<"dt", <<h \div 10, h % 10>>>>
    ELSE <<"ns", NsValue(res.namespace, field)>>

(* Every placeholder of the template has a value: {yyyymmdd} and {hh} from *)
(* the init datetime, the others from the namespace.                       *)
AllFieldsResolved ==
    \A f \in Placeholders(res.self.filename_template) :
       IF f \in {"yyyymmdd", "hh"} THEN res.init_datetime # None
       ELSE f \in NsKeys(res.namespace)

(* C19: the call returns the template with {yyyymmdd} and {hh} replaced by *)
(* the date and two-digit hour of the init datetime and each other         *)
(* placeholder by its namespace value, whatever other keys the namespace   *)
(* has; the FieldSource and the namespace are unchanged.                   *)
C19_RendersTemplateIgnoringUnusedKeys ==
    (res.op = "get_filename" /\ AllFieldsResolved) =>
       /\ res.result.error = None
       /\ res.result.name.template = res.self.filename_template
       /\ LET fields == TemplateFields(res.self.filename_template)
          IN /\ Len(res.result.name.values) = Len(fields)
             /\ \A i \in 1..Len(fields) :
                   res.result.name.values[i] = ExpectedFieldValue(fields[i])
       /\ res.self_after = Some(res.self)
       /\ res.namespace_after = Some(res.namespace)

(* The placeholders that nothing resolves.                                 *)
UnresolvedFields ==
    {f \in Placeholders(res.self.filename_template) :
        /\ f \notin NsKeys(res.namespace)
        /\ ~(f \in {"yyyymmdd", "hh"} /\ res.init_datetime # None)}

(* C20: when a placeholder of the template is resolved neither by the      *)
(* namespace nor by the init datetime, the call raises an error that names *)
(* a missing key and returns no filename.                                  *)
C20_UnresolvedPlaceholderNamesMissingKey ==
    (res.op = "get_filename" /\ UnresolvedFields # {}) =>
       /\ res.result.name = None
       /\ res.result.error # None
       /\ res.result.error[1][2] \in UnresolvedFields

(* The namespace has no key that the init datetime also gives.             *)
NoSharedKey ==
    res.init_datetime = None
    \/ NsKeys(res.namespace) \cap {"yyyymmdd", "hh"} = {}

(* Away from a shared key the call renders the template as C19 says, and   *)
(* raises the KeyError of the first unresolved field as C20 says.          *)
GetFilenameRendersWithoutSharedKey ==
    NoSharedKey => C19_RendersTemplateIgnoringUnusedKeys

GetFilenameKeyErrorWithoutSharedKey ==
    (NoSharedKey /\ res.op = "get_filename" /\ UnresolvedFields # {}) =>
       /\ res.result.name = None
       /\ res.result.error[1][1] = "KeyError"
       /\ res.result.error[1][2] \in UnresolvedFields
       /\ LET fields == TemplateFields(res.self.filename_template)
          IN \A j \in 1..Len(fields) :
                fields[j] \in UnresolvedFields =>
                   \E i \in 1..j : fields[i] = res.result.error[1][2]

----------------------------------------------------------------------------
(* The option errors of get_surge_model_at_stations.                       *)

(* The value passes the check the api makes on the option of that kind.    *)
OptionAccepted(kind, value) ==
    CASE kind = "model" -> value \in {"STOFS_2D_GLO", "STOFS_3D_ATL", "GFS"}
      [] kind = "forecast type" -> lower(value) \in {"forecast", "nowcast"}
      [] kind = "file geometry" -> lower(value) \in {"points", "mesh", "grid"}
      [] kind = "data store" -> lower(value) \in {"aws"}

OptionKinds == {"model", "forecast type", "file geometry", "data store"}

(* The value the call was given for the option of that kind.               *)
OptionGiven(kind) ==
    CASE kind = "model" -> req.model
      [] kind = "forecast type" -> req.forecast_type
      [] kind = "file geometry" -> req.file_geometry
      [] kind = "data store" -> req.data_store

(* Nothing was created: no request object, no task, no file opened.        *)
NothingCreated ==
    /\ req.pc = "error"
    /\ req.tasks = <<>>
    /\ req.versions = <<>>
    /\ req.opened = 0

(* A call with an option outside the accepted set ends with a ValueError   *)
(* that lists options and creates nothing; so does a nowcast call with     *)
(* accepted options and end_date before start_date.                        *)
InvalidCallRaises ==
    req.pc # "call" =>
       /\ (\E kind \in OptionKinds : ~OptionAccepted(kind, OptionGiven(kind)))
             => /\ NothingCreated
                /\ req.error[1] = "ValueError"
                /\ req.error[2] \in OptionKinds
                /\ ~OptionAccepted(req.error[2], OptionGiven(req.error[2]))
                /\ req.error[3] # <<>>
       /\ ((\A kind \in OptionKinds : OptionAccepted(kind, OptionGiven(kind)))
           /\ lower(req.forecast_type) = "nowcast"
           /\ req.end_date # None
           /\ req.end_date[1] < req.start_date)
             => /\ NothingCreated
                /\ req.error[1] = "ValueError"
                /\ req.error[2] = "end_date"

(* C21: an option outside the accepted set, or a nowcast end_date before   *)
(* start_date, raises an error and creates no request or task; the error   *)
(* of an option lists the valid options, and every option it lists is      *)
(* itself accepted.                                                        *)
C21_OptionErrorListsAcceptedOptions ==
    /\ InvalidCallRaises
    /\ (req.pc = "error" /\ req.error[2] \in OptionKinds) =>
          \A k \in 1..Len(req.error[3]) :
             OptionAccepted(req.error[2], req.error[3][k])

----------------------------------------------------------------------------
(* Forecast requests and the end date.                                     *)

(* What get_analysis_tasks gives the request of a call with accepted       *)
(* options.                                                                *)
ApiTasks(model, variables, start_date, end_date, forecast_type, file_geometry) ==
    get_analysis_tasks(CreatorNamed(model), variables, Stations, start_date,
                       ReqEndDate(forecast_type, start_date, end_date),
                       lower(forecast_type), lower(file_geometry))

(* The same call with another end date.                                    *)
WithEndDate(end_date) ==
    ApiTasks(req.model, req.variables, req.start_date, end_date,
             req.forecast_type, req.file_geometry)

(* C22: the task list of a forecast request is the task list of the call   *)
(* with any other end_date (None, earlier than start_date, later), and     *)
(* every task has the init time get_init_time_forecast(start_date); a      *)
(* forecast call is never rejected for its end_date.                       *)
C22_ForecastIgnoresEndDate ==
    req.forecast_type = "forecast" =>
       /\ req.pc \in {"run", "done"} =>
             /\ \A e \in ApiEndDates :
                   /\ ~WithEndDate(e).exit
                   /\ WithEndDate(e).tasks = req.tasks
             /\ \A k \in 1..Len(req.tasks) :
                   req.tasks[k].init =
                      ForecastInitDate(ReqSelf.cycles, req.start_date)
       /\ req.pc = "fatal" => \A e \in ApiEndDates : WithEndDate(e).exit
       /\ req.pc = "error" => req.error[2] # "end_date"

(* A forecast request called with end_date None has its tasks.             *)
C22_Witness ==
    /\ req.pc = "run"
    /\ req.forecast_type = "forecast"
    /\ req.end_date = None
    /\ Len(req.tasks) >= 1
    /\ req.start_date > 0

(* A forecast request called with end_date a day before start_date.        *)
C22_WitnessEarlierEnd ==
    /\ req.pc = "done"
    /\ req.forecast_type = "forecast"
    /\ req.end_date # None
    /\ req.end_date[1] < req.start_date
    /\ Len(req.tasks) >= 1

----------------------------------------------------------------------------
(* The station specification of a request and the tasks that read it.      *)
(* SurgeModelRequest and every task hold the caller's object itself.  A    *)
(* specification is a list of identifiers or a data frame with latitude    *)
(* and longitude columns, a named or unnamed index, and possibly a station *)
(* or station_name column; station says where the values of the station    *)
(* column come from.                                                       *)

MaxTaskRuns == 3

StationFrames ==
    {[kind |-> "frame", index_name |-> ix, columns |-> cols,
      station |-> IF "station" \in cols THEN "caller" ELSE "none"] :
        ix \in {None, Some("station")},
        cols \in SUBSET {"station", "station_name"}}

StationSpecs ==
    {[kind |-> "list", index_name |-> None, columns |-> {},
      station |-> "none"]} \cup StationFrames

TaskKinds == {"AnalysisTask", "GridAnalysisTask", "MeshAnalysisTask"}

(* AnalysisTask.get_subset: extract_stations_by_nos_id iterates over the   *)
(* specification (the identifiers of a list, the column names of a frame). *)
AnalysisTask_get_subset(stations) ==
    [raised |-> FALSE,
     labels |-> IF stations.kind = "list" THEN <<"ids">>
                ELSE <<"column names", stations.columns>>,
     stations |-> stations]

(* GridAnalysisTask.get_subset lines 134-157: the station dimension of the *)
(* lookup.  Without a station or station_name column the labels are        *)
(* inserted as a new station column of self.stations.                      *)
GridAnalysisTask_get_subset(stations) ==
    IF stations.kind = "list" \/ stations.index_name # None
    THEN [raised |-> TRUE, labels |-> <<>>, stations |-> stations]
    ELSE IF "station" \in stations.columns
    THEN [raised |-> FALSE, labels |-> <<"station", stations.station>>,
          stations |-> stations]
    ELSE IF "station_name" \in stations.columns
    THEN [raised |-> FALSE, labels |-> <<"station_name", "caller">>,
          stations |-> stations]
    ELSE [raised |-> FALSE, labels |-> <<"station", "lat_lon N E">>,
          stations |-> [stations EXCEPT
                           !.columns = @ \cup {"station"},
                           !.station = "lat_lon N E"]]

(* MeshAnalysisTask.get_subset lines 159-173: the station coordinate.      *)
MeshAnalysisTask_get_subset(stations) ==
    IF stations.kind = "list"
    THEN [raised |-> TRUE, labels |-> <<>>, stations |-> stations]
    ELSE IF "station" \in stations.columns
    THEN [raised |-> FALSE, labels |-> <<"station", stations.station>>,
          stations |-> stations]
    ELSE IF "station_name" \in stations.columns
    THEN [raised |-> FALSE, labels |-> <<"station_name", "caller">>,
          stations |-> stations]
    ELSE [raised |-> FALSE, labels |-> <<"station", "lat_lon N_E">>,
          stations |-> stations]

TaskGetSubsetOf(kind, stations) ==
    CASE kind = "AnalysisTask" -> AnalysisTask_get_subset(stations)
      [] kind = "GridAnalysisTask" -> GridAnalysisTask_get_subset(stations)
      [] kind = "MeshAnalysisTask" -> MeshAnalysisTask_get_subset(stations)

InitTasks ==
    /\ req = ReqIdle
    /\ run = RunIdle
    /\ mrg = MrgIdle
    /\ \E stations \in StationSpecs,
          tasks \in UNION {[1..n -> TaskKinds] : n \in 1..MaxTaskRuns} :
          res = [op |-> "tasks", stations |-> stations,
                 stations_at_call |-> stations, tasks |-> tasks, i |-> 1,
                 results |-> <<>>]

(* One pass of "for t in tasks: t.run(...)" for a task of the kind.        *)
RunTaskOfKind(kind) ==
    /\ res.op = "tasks"
    /\ res.i <= Len(res.tasks)
    /\ res.tasks[res.i] = kind
    /\ LET r == TaskGetSubsetOf(kind, res.stations)
       IN res' = [res EXCEPT !.i = @ + 1, !.stations = r.stations,
                     !.results = Append(@, [raised |-> r.raised,
                                            labels |-> r.labels])]
    /\ UNCHANGED <<req, run, mrg>>

RunPointsTask == RunTaskOfKind("AnalysisTask")
RunGridTask == RunTaskOfKind("GridAnalysisTask")
RunMeshTask == RunTaskOfKind("MeshAnalysisTask")

NextTasks == RunPointsTask \/ RunGridTask \/ RunMeshTask

SpecTasks == InitTasks /\ [][NextTasks]_vars

(* The result of the task run alone on the caller's specification.         *)
ResultAlone(kind) ==
    LET r == TaskGetSubsetOf(kind, res.stations_at_call)
    IN [raised |-> r.raised, labels |-> r.labels]

(* C23: whatever tasks have run, the station specification the caller      *)
(* passed in is as it was at the call, and each task's result is the       *)
(* result it gives when it runs alone.                                     *)
C23_TasksShareNoMutableState ==
    res.op = "tasks" =>
       /\ res.stations = res.stations_at_call
       /\ \A k \in 1..Len(res.results) :
             res.results[k] = ResultAlone(res.tasks[k])

----------------------------------------------------------------------------
(* Uniqueness of the (station, time) key.                                  *)

(* C24: the table extract_stations_by_nos_id returns for a task, which is  *)
(* also the merged table of a request with that single task, has at most   *)
(* one row per (station, time) key, for every list of identifiers.         *)
C24_OneRowPerStationTimeKey ==
    (res.op = "extract_stations_by_nos_id" /\ res.pc = "returned") =>
       \A j, k \in 1..Len(res.result) :
          (/\ res.result[j].station = res.result[k].station
           /\ res.result[j].time = res.result[k].time) => j = k

(* Merging tables that each have one row per key gives one row per key.    *)
MergedIndexHasDistinctKeys ==
    \A j, k \in 1..Len(mrg.result.index) :
       mrg.result.index[j] = mrg.result.index[k] => j = k

----------------------------------------------------------------------------
(* Coverage of a nowcast request across a version boundary.                *)

(* The instant lies in the time slice of a task that reads the variable.   *)
CoveredBy(tasks, var, t) ==
    \E k \in 1..Len(tasks) :
       /\ \E v \in Range(tasks[k].varlist) : v.varname_out = var
       /\ tasks[k].timeslice[1].lo <= t
       /\ t <= tasks[k].timeslice[1].hi[1]

(* C25: a nowcast request on STOFS-2D-Global or STOFS-3D-Atlantic that     *)
(* spans the boundary between the two catalog versions and resolves its    *)
(* field sources has, for each requested variable, every instant of        *)
(* [start, end] inside the time slice of some task, the instants between   *)
(* the older version's last_run and the newer one's first_run included.    *)
C25_BoundaryRequestCoversEveryInstant ==
    C8_BoundaryCase =>
       \A j \in 1..Len(res.variables) :
          \A t \in res.start_date..res.end_date :
             CoveredBy(res.tasks.tasks, res.variables[j], t)

(* Away from the gap between the versions every instant is covered: an     *)
(* instant of [start, end] that no task covers lies strictly between the   *)
(* last_run of one version and the first_run of the other.                 *)
UncoveredInstantsLieBetweenVersions ==
    C8_BoundaryCase =>
       \A j \in 1..Len(res.variables) :
          \A t \in res.start_date..res.end_date :
             ~CoveredBy(res.tasks.tasks, res.variables[j], t) =>
                \E a, b \in 1..Len(ResSelf.data_catalog) :
                   /\ ResSelf.data_catalog[a].last_run # None
                   /\ ResSelf.data_catalog[a].last_run[1] < t
                   /\ t < ResSelf.data_catalog[b].first_run

----------------------------------------------------------------------------
(* Init times and the runs of a version.                                   *)

(* The version ran a cycle at the datetime.                                *)
RanAt(entry, init) ==
    /\ entry.first_run <= init
    /\ entry.last_run # None => init <= entry.last_run[1]

(* C26: every task get_analysis_tasks creates, for a forecast or a nowcast *)
(* request with start <= end on any model, is built from a field source of *)
(* the catalog version it names and has an init time within that           *)
(* version's [first_run, last_run] (no last_run: unbounded).               *)
C26_TaskInitWithinVersionRuns ==
    (res.op = "get_analysis_tasks" /\ ~res.tasks.exit) =>
       \A k \in 1..Len(res.tasks.tasks) :
          LET task == res.tasks.tasks[k]
              entry == CatalogEntry(ResSelf, task.version)
          IN /\ RanAt(entry, task.init)
             /\ \E fs \in Range(entry.field_sources) :
                   fs.filename_template = task.filename.template

(* A nowcast request that ends before the older version's last run and     *)
(* takes the cycle after its end, and one across the boundary whose tasks  *)
(* include the last run of the older version and the first of the newer.   *)
C26_Witness ==
    /\ res.op = "get_analysis_tasks"
    /\ ~res.tasks.exit
    /\ res.forecast_type = NOWCAST
    /\ res.model = "STOFS_2D_GLO"
    /\ \E k \in 1..Len(res.tasks.tasks) :
          LET task == res.tasks.tasks[k]
          IN /\ task.version = "v2.0"
             /\ task.init = CatalogEntry(ResSelf, "v2.0").last_run[1]
    /\ \E k \in 1..Len(res.tasks.tasks) :
          LET task == res.tasks.tasks[k]
          IN /\ task.version = "v2.1"
             /\ task.init = CatalogEntry(ResSelf, "v2.1").first_run

(* A forecast call whose range reaches into the newer version from before  *)
(* its first run.                                                          *)
C26_WitnessForecast ==
    /\ res.op = "get_analysis_tasks"
    /\ ~res.tasks.exit
    /\ res.forecast_type = FORECAST
    /\ \E k \in 1..Len(res.tasks.tasks) :
          LET task == res.tasks.tasks[k]
          IN /\ task.version = "v2.1"
             /\ res.start_date < CatalogEntry(ResSelf, "v2.1").first_run
             /\ task.init = CatalogEntry(ResSelf, "v2.1").first_run

----------------------------------------------------------------------------
(* A request over several versions, one of which lacks a variable.         *)

(* The request ended in the exit of get_field_source for no field source.  *)
NoFieldSourceExit ==
    /\ req.pc = "fatal"
    /\ req.error[1] = "SystemExit"
    /\ req.error[2] = "warning: no FieldSource available"

(* C27 as stated: the request that ends in the no-Field-Source exit has    *)
(* created no task at all.                                                 *)
C27_MissingSourceCreatesNoTask ==
    NoFieldSourceExit => req.tasks = <<>>

(* C27 amended: a request reaches the running of its tasks only when every *)
(* overlapping version has a field source for every requested variable and *)
(* the geometry; the no-Field-Source exit names a requested variable and   *)
(* the geometry, and no task has been opened or has returned a table, the  *)
(* tasks built for earlier versions of the catalog being dropped.          *)
C27_MissingSourceInAnyVersionIsFatal ==
    /\ req.pc \in {"run", "done"} =>
          \A k \in 1..Len(req.versions) : \A j \in 1..Len(req.variables) :
             \E fs \in Range(CatalogEntry(ReqSelf,
                                          req.versions[k].ver).field_sources) :
                /\ fs.file_geometry = req.file_geometry
                /\ \E v \in Range(fs.variables) :
                      v.varname_out = req.variables[j]
    /\ NoFieldSourceExit =>
          /\ req.error[3][1] \in Range(req.variables)
          /\ req.error[3][2] = req.file_geometry
          /\ req.opened = 0
          /\ req.df_count = 0

(* cwl_bias_corrected points for STOFS-2D-Global across the v2.0 / v2.1    *)
(* boundary: v2.1 has the variable and its tasks were built, v2.0 has not  *)
(* and ends the request.                                                   *)
C27_Witness ==
    /\ NoFieldSourceExit
    /\ req.model = "STOFS_2D_GLO"
    /\ req.variables = <<"cwl_bias_corrected">>
    /\ req.file_geometry = POINTS
    /\ Len(req.versions) = 2
    /\ req.versions[req.vi].ver = "v2.0"
    /\ req.tasks # <<>>
    /\ \A k \in 1..Len(req.tasks) : req.tasks[k].version = "v2.1"

----------------------------------------------------------------------------
(* AnalysisTask.postprocess (analysis_task.py), statement by statement.    *)
(* run.dataframe is self.dataframe, run.before the table get_subset left   *)
(* there, run.j the position of the loop over self.varlist and run.calls   *)
(* the calls of vdatum.convert so far (history).                           *)

PostVarlists ==
    {<<Var("cwl_raw", "zeta", "LMSL")>>,
     <<Var("u_vel", "u-vel", "None")>>,
     <<Var("cwl", "zeta", "NAVD88"), Var("u_vel", "u", "None")>>,
     <<Var("cwl", "elevation", "NAVD88"), Var("htp", "tide", "LMSL")>>}

PostDatums == {None, Some("MLLW")}

(* The tables get_subset leaves for a varlist: a column per variable,      *)
(* named as in the file, or the table without rows and columns.            *)
PostTables(varlist) ==
    LET cs == [i \in 1..Len(varlist) |-> varlist[i].varname_file]
    IN {EmptyDataFrame} \cup
       UNION {{DataFrame(ix, cs, d) :
                  d \in [Range(ix) -> [Range(cs) -> Values]]} :
              ix \in Orderings(StationTimeKeys) \ {<<>>}}

(* self.dataframe.rename(columns=col_name_mapper)                          *)
Rename(df, varlist) ==
    LET cs == [i \in 1..Len(df.columns) |->
                  col_name_mapper(varlist, df.columns[i])]
    IN DataFrame(df.index, cs,
                 [k \in Range(df.index) |->
                     [c \in Range(cs) |->
                         df.data[k][df.columns[
                             CHOOSE i \in 1..Len(cs) : cs[i] = c]]]])

(* vdict['datum'] is not None                                              *)
DeclaresDatum_always(vdict) == TRUE
DeclaresDatum(vdict) == vdict.datum # "None"

InitPostprocess ==
    /\ res = ResIdle
    /\ req = ReqIdle
    /\ mrg = MrgIdle
    /\ \E varlist \in PostVarlists, output_datum \in PostDatums :
          \E df \in PostTables(varlist) :
             run = [pc |-> "rename", varlist |-> varlist,
                    output_datum |-> output_datum, dataframe |-> df,
                    before |-> df, j |-> 1, calls |-> <<>>]

(* Lines 155-158.                                                          *)
RenameColumns ==
    /\ run.pc = "rename"
    /\ run' = [run EXCEPT !.dataframe = Rename(run.dataframe, run.varlist),
                          !.pc = IF run.output_datum # None THEN "convert"
                                 ELSE "return"]
    /\ UNCHANGED <<res, req, mrg>>

(* Lines 162-170 for a variable with a datum: the converter is called with *)
(* the latitude, longitude and variable columns, and its result replaces   *)
(* the variable's column.  A table without columns has no latitude column. *)
ConvertVariable ==
    /\ run.pc = "convert"
    /\ run.j <= Len(run.varlist)
    /\ DeclaresDatum(run.varlist[run.j])
    /\ run.dataframe # EmptyDataFrame
    /\ LET vdict == run.varlist[run.j]
           df == run.dataframe
       IN \E z_conv \in [Range(df.index) -> Values] :
             run' = [run EXCEPT
                        !.j = @ + 1,
                        !.calls = Append(@, <<lower(vdict.datum),
                                              lower(run.output_datum[1]),
                                              vdict.varname_out>>),
                        !.dataframe = DataFrame(df.index, df.columns,
                            [k \in Range(df.index) |->
                                [c \in Range(df.columns) |->
                                    IF c = vdict.varname_out THEN z_conv[k]
                                    ELSE df.data[k][c]]])]
    /\ UNCHANGED <<res, req, mrg>>

(* self.dataframe['latitude'] of a table without columns: KeyError.        *)
ConvertRaises ==
    /\ run.pc = "convert"
    /\ run.j <= Len(run.varlist)
    /\ DeclaresDatum(run.varlist[run.j])
    /\ run.dataframe = EmptyDataFrame
    /\ run' = [run EXCEPT !.pc = "raised"]
    /\ UNCHANGED <<res, req, mrg>>

(* Line 162 for a variable without a datum.                                *)
SkipVariable ==
    /\ run.pc = "convert"
    /\ run.j <= Len(run.varlist)
    /\ ~DeclaresDatum(run.varlist[run.j])
    /\ run' = [run EXCEPT !.j = @ + 1]
    /\ UNCHANGED <<res, req, mrg>>

PostprocessReturn ==
    /\ \/ run.pc = "return"
       \/ run.pc = "convert" /\ run.j > Len(run.varlist)
    /\ run' = [run EXCEPT !.pc = "returned"]
    /\ UNCHANGED <<res, req, mrg>>

NextPostprocess ==
    \/ RenameColumns
    \/ ConvertVariable
    \/ ConvertRaises
    \/ SkipVariable
    \/ PostprocessReturn

SpecPostprocess == InitPostprocess /\ [][NextPostprocess]_vars

(* The output name of the file-native column.                              *)
OutputNameOf(col) ==
    (CHOOSE v \in Range(run.varlist) : v.varname_file = col).varname_out

(* The variables of the task that declare a source datum.                  *)
DatumVariables ==
    {v \in Range(run.varlist) : v.datum # "None"}

(* C28: when postprocess has returned, every column has the output name of *)
(* its variable; with an output datum the converter has been called once   *)
(* for each variable that declares a datum and for no other, and every     *)
(* other column has the values get_subset left; with output datum None the *)
(* converter has not been called and every value is as get_subset left it. *)
C28_RenameAllConvertDeclaredOnly ==
    (run.pc = "returned") =>
       LET df == run.dataframe
           old == run.before
       IN /\ df.index = old.index
          /\ Len(df.columns) = Len(old.columns)
          /\ \A i \in 1..Len(old.columns) :
                /\ df.columns[i] = OutputNameOf(old.columns[i])
                /\ (run.output_datum = None
                    \/ \A v \in DatumVariables :
                          v.varname_file # old.columns[i])
                      => \A k \in Range(df.index) :
                            df.data[k][df.columns[i]]
                               = old.data[k][old.columns[i]]
          /\ run.output_datum = None => run.calls = <<>>
          /\ run.output_datum # None =>
                /\ \A v \in DatumVariables :
                      Cardinality({n \in 1..Len(run.calls) :
                                      run.calls[n][3] = v.varname_out}) = 1
                /\ Len(run.calls) = Cardinality(DatumVariables)

(* A task with a variable that declares a datum and one that does not:     *)
(* one call, and the converted column changed.                             *)
C28_Witness ==
    /\ run.pc = "returned"
    /\ run.output_datum # None
    /\ Len(run.varlist) = 2
    /\ run.calls = <<<<"navd88", "mllw", "cwl">>>>
    /\ Len(run.dataframe.index) = 2
    /\ \E k \in Range(run.dataframe.index) :
          run.dataframe.data[k]["cwl"] # run.before.data[k]["zeta"]

(* Output datum None: renamed, nothing converted.                          *)
C28_WitnessNoDatum ==
    /\ run.pc = "returned"
    /\ run.output_datum = None
    /\ DatumVariables # {}
    /\ run.dataframe.columns # run.before.columns
    /\ run.dataframe.index # <<>>

----------------------------------------------------------------------------
(* Mesh tasks of one request whose time window may remove every timestep:  *)
(* MeshAnalysisTask.get_subset (analysis_task_mesh.py), then postprocess,  *)
(* the bare except of SurgeModelRequest.run and _concat_and_update.        *)
(* run.tasks holds, per task, the varlist, the timeslice and the times of  *)
(* the opened dataset; run.searched records per task whether               *)
(* get_nearest_dists_inds was called; run.outcomes whether the task's run  *)
(* returned, the table it returned and whether its window was empty.       *)

MeshStation == "8518750"
MeshVarlists == {<<Var("cwl", "zeta", "NAVD88")>>,
                 <<Var("u_vel", "u", "None")>>}
MeshTimeslices == {None, Some(<<0, 0>>)}
MeshDatasetTimes == {<<0>>, <<1>>}

MeshTasks ==
    [varlist : MeshVarlists, timeslice : MeshTimeslices,
     times : MeshDatasetTimes]

(* ds_sub.sel(time=slice(timeslice[0], timeslice[1]))                      *)
SelTimeslice(times, timeslice) ==
    IF timeslice = None THEN times
    ELSE SelectSeq(times, LAMBDA t : /\ timeslice[1][1] <= t
                                     /\ t <= timeslice[1][2])

(* The tables the weighted sum and to_dataframe can give: a row per        *)
(* station and selected time, a column per variable of the file.           *)
MeshTables(task, times) ==
    LET ix == [n \in 1..Len(times) |-> <<MeshStation, times[n]>>]
        cs == [i \in 1..Len(task.varlist) |-> task.varlist[i].varname_file]
    IN {DataFrame(ix, cs, d) : d \in [Range(ix) -> [Range(cs) -> Values]]}

(* The datum conversion of postprocess reads self.dataframe['latitude'].   *)
PostprocessKeyError(df, varlist, output_datum) ==
    /\ df = EmptyDataFrame
    /\ ConvertedColumns(varlist, output_datum) # {}

InitMeshRun ==
    /\ res = ResIdle
    /\ req = ReqIdle
    /\ mrg = MrgIdle
    /\ \E n \in 1..MaxTasks :
          \E tasks \in [1..n -> MeshTasks], output_datum \in OutputDatums :
             run = [pc |-> "subset", tasks |-> tasks,
                    output_datum |-> output_datum, i |-> 1,
                    dataframe |-> EmptyDataFrame, searched |-> <<>>,
                    df_list |-> <<>>, outcomes |-> <<>>,
                    result |-> EmptyDataFrame]

(* Lines 147-154: no timestep left, the empty data frame is returned.      *)
MeshSubsetEmpty ==
    /\ run.pc = "subset"
    /\ LET task == run.tasks[run.i]
       IN /\ SelTimeslice(task.times, task.timeslice) = <<>>
          /\ run' = [run EXCEPT !.pc = "postprocess",
                                !.dataframe = EmptyDataFrame,
                                !.searched = Append(@, FALSE)]
    /\ UNCHANGED <<res, req, mrg>>

(* Lines 156-205: neighbour search, weighted sum, data frame.              *)
MeshSubsetRows ==
    /\ run.pc = "subset"
    /\ LET task == run.tasks[run.i]
           times == SelTimeslice(task.times, task.timeslice)
       IN /\ times # <<>>
          /\ \E df \in MeshTables(task, times) :
                run' = [run EXCEPT !.pc = "postprocess",
                                   !.dataframe = df,
                                   !.searched = Append(@, TRUE)]
    /\ UNCHANGED <<res, req, mrg>>

MeshLoopHead(i, n) == IF i > n THEN "gather" ELSE "subset"

(* postprocess returns and the table is appended to df_list.               *)
MeshPostprocessReturns ==
    /\ run.pc = "postprocess"
    /\ LET task == run.tasks[run.i]
       IN /\ ~PostprocessKeyError(run.dataframe, task.varlist,
                                  run.output_datum)
          /\ \E df \in PostprocessTables(run.dataframe, task.varlist,
                                         run.output_datum) :
                run' = [run EXCEPT
                           !.i = @ + 1,
                           !.pc = MeshLoopHead(run.i + 1, Len(run.tasks)),
                           !.dataframe = EmptyDataFrame,
                           !.df_list = Append(@, df),
                           !.outcomes = Append(@,
                               [ok |-> TRUE, table |-> df,
                                empty |-> ~run.searched[run.i]])]
    /\ UNCHANGED <<res, req, mrg>>

(* postprocess raises KeyError, run's except logs the warning and the loop *)
(* goes on.                                                                *)
MeshPostprocessRaises ==
    /\ run.pc = "postprocess"
    /\ LET task == run.tasks[run.i]
           j == AfterException(run.i, Len(run.tasks))
       IN /\ PostprocessKeyError(run.dataframe, task.varlist,
                                 run.output_datum)
          /\ run' = [run EXCEPT
                        !.i = j,
                        !.pc = MeshLoopHead(j, Len(run.tasks)),
                        !.dataframe = EmptyDataFrame,
                        !.outcomes = Append(@,
                            [ok |-> FALSE, table |-> EmptyDataFrame,
                             empty |-> ~run.searched[run.i]])]
    /\ UNCHANGED <<res, req, mrg>>

MeshGather ==
    /\ run.pc = "gather"
    /\ run' = [run EXCEPT !.pc = "done",
                          !.result = IF run.df_list # <<>>
                                     THEN concat_and_update(run.df_list)
                                     ELSE EmptyDataFrame]
    /\ UNCHANGED <<res, req, mrg>>

NextMeshRun ==
    \/ MeshSubsetEmpty
    \/ MeshSubsetRows
    \/ MeshPostprocessReturns
    \/ MeshPostprocessRaises
    \/ MeshGather

SpecMeshRun == InitMeshRun /\ [][NextMeshRun]_vars

(* The tables of the tasks that returned rows, in task order.              *)
RECURSIVE TablesWithRows(_)
TablesWithRows(outcomes) ==
    IF outcomes = <<>> THEN <<>>
    ELSE (IF Head(outcomes).ok /\ ~Head(outcomes).empty
          THEN <<Head(outcomes).table>> ELSE <<>>)
            \o TablesWithRows(Tail(outcomes))

EmptyWindow(j) ==
    SelTimeslice(run.tasks[j].times, run.tasks[j].timeslice) = <<>>

MergeLeavesEmptyOut ==
    LET rows == TablesWithRows(run.outcomes)
    IN run.result = IF rows = <<>> THEN EmptyDataFrame
                    ELSE concat_and_update(rows)

(* C29: a mesh task whose time window removes every timestep returns the   *)
(* empty table from get_subset without a neighbour search, its run         *)
(* completes, and the merged result of the request is the one obtained     *)
(* with the empty tables left out, wherever they stand in the list.        *)
C29_EmptyWindowTaskCompletesAndMergesAsLeftOut ==
    /\ \A j \in 1..Len(run.outcomes) :
          EmptyWindow(j) =>
             /\ ~run.searched[j]
             /\ run.outcomes[j].ok
             /\ run.outcomes[j].table = EmptyDataFrame
    /\ run.pc = "done" => MergeLeavesEmptyOut

(* An empty window with output datum MLLW and a variable with a datum: the *)
(* task's run did not return.                                              *)
C29_EmptyWindowTaskDropped ==
    /\ run.pc = "done"
    /\ \E j \in 1..Len(run.outcomes) :
          /\ EmptyWindow(j)
          /\ ~run.outcomes[j].ok

(* get_subset alone: an empty window gives the empty table and no search,  *)
(* and a window with timesteps is searched.                                *)
EmptyWindowSkipsSearch ==
    \A j \in 1..Len(run.searched) :
       /\ run.searched[j] = ~EmptyWindow(j)
       /\ (run.pc = "postprocess" /\ j = run.i /\ EmptyWindow(j))
             => run.dataframe = EmptyDataFrame

(* The merge alone: the result is the merge of the tables with rows, also  *)
(* when the empty table stands first.                                      *)
EmptyTableMergesAsLeftOut ==
    run.pc = "done" => MergeLeavesEmptyOut

(* The empty table first in df_list and a table with rows after it.        *)
EmptyFirstThenRowsMerged ==
    /\ run.pc = "done"
    /\ Len(run.df_list) >= 2
    /\ run.df_list[1] = EmptyDataFrame
    /\ run.result.index # <<>>

----------------------------------------------------------------------------
(* GridAnalysisTask.get_subset (analysis_task_grid.py) on a regular grid:  *)
(* longitudes are switched to the signed range, the dataset is sorted by   *)
(* longitude, times are subset, and the grid point nearest to each station *)
(* is selected on the latitude and the longitude axis.  Degrees are        *)
(* integers.  run.longitude is the longitude coordinate as a sequence of   *)
(* <<value, longitude in the file>>, so that the data of a grid point stay *)
(* identified by the point of the file they belong to; run.rows is the     *)
(* data frame, with the grid point each row was read from.                 *)

MaxGridLons == 3
MaxGridStations == 2

GridLonValues == {0, 100, 200, 300}
GridLats == {<<50, 40>>, <<40>>, <<40, 50>>}
GridTimes == {<<0>>, <<0, 1>>}
GridStationLats == {40, 45}
GridStationLons == {-160, -110, 150}

(* The ascending sequence of a set of integers.                            *)
RECURSIVE Ascending(_)
Ascending(S) ==
    IF S = {} THEN <<>>
    ELSE LET m == CHOOSE x \in S : \A y \in S : x <= y
         IN <<m>> \o Ascending(S \ {m})

GridLons ==
    {Ascending(S) : S \in {T \in SUBSET GridLonValues :
                              /\ T # {}
                              /\ Cardinality(T) <= MaxGridLons}}

GridStations ==
    UNION {[1..n -> [latitude : GridStationLats,
                     longitude : GridStationLons]] :
           n \in 1..MaxGridStations}

(* seanode.utils.switch_lon_lims(lon, min_lon): the longitude in           *)
(* [min_lon, min_lon + 360).                                               *)
switch_lon_lims(lon, min_lon) == ((lon - min_lon) % 360) + min_lon

(* ds_sub.sortby('longitude'): ascending by value, the data moving with    *)
(* their coordinate.                                                       *)
RECURSIVE sortby_longitude(_)
sortby_longitude_unsorted(longitude) == longitude
sortby_longitude(longitude) ==
    IF longitude = <<>> THEN <<>>
    ELSE LET i == CHOOSE n \in 1..Len(longitude) :
                     \A m \in 1..Len(longitude) :
                        longitude[n][1] <= longitude[m][1]
         IN <<longitude[i]>>
               \o sortby_longitude(SubSeq(longitude, 1, i - 1)
                                     \o SubSeq(longitude, i + 1,
                                               Len(longitude)))

Abs(x) == IF x < 0 THEN -x ELSE x

(* Index.get_indexer(method='nearest') needs a unique, monotonic index.    *)
Monotonic(values) ==
    \/ \A n \in 1..(Len(values) - 1) : values[n] < values[n + 1]
    \/ \A n \in 1..(Len(values) - 1) : values[n] > values[n + 1]

(* The position of the nearest value; of two values at the same distance   *)
(* the larger one is taken.                                                *)
NearestIndex(values, x) ==
    CHOOSE n \in 1..Len(values) :
       \A m \in 1..Len(values) :
          \/ Abs(values[n] - x) < Abs(values[m] - x)
          \/ /\ Abs(values[n] - x) = Abs(values[m] - x)
             /\ values[n] >= values[m]

(* ds_sub.sel(latitude=..., longitude=..., method='nearest')               *)
(*    .to_dataframe().reset_index().set_index(['station', 'time'])         *)
GridSel(latitude, longitude, times, stations) ==
    LET lonvalues == [n \in 1..Len(longitude) |-> longitude[n][1]]
    IN [n \in 1..(Len(stations) * Len(times)) |->
           LET s == ((n - 1) \div Len(times)) + 1
               t == ((n - 1) % Len(times)) + 1
               la == NearestIndex(latitude, stations[s].latitude)
               lo == NearestIndex(lonvalues, stations[s].longitude)
           IN [station |-> s, time |-> times[t],
               point |-> <<latitude[la], longitude[lo][2]>>]]

InitGrid ==
    /\ res = ResIdle
    /\ req = ReqIdle
    /\ mrg = MrgIdle
    /\ \E lons \in GridLons, lats \in GridLats, times \in GridTimes,
          timeslice \in MeshTimeslices, stations \in GridStations :
          run = [pc |-> "switch", lons |-> lons, latitude |-> lats,
                 longitude |-> [n \in 1..Len(lons) |-> <<lons[n], lons[n]>>],
                 times |-> times, timeslice |-> timeslice,
                 stations |-> stations, rows |-> <<>>]

(* Lines 115-118.                                                          *)
GridSwitchLongitude ==
    /\ run.pc = "switch"
    /\ run' = [run EXCEPT
                  !.pc = "sortby",
                  !.longitude = [n \in 1..Len(run.longitude) |->
                      <<switch_lon_lims(run.longitude[n][1], -180),
                        run.longitude[n][2]>>]]
    /\ UNCHANGED <<res, req, mrg>>

(* Line 119.                                                               *)
GridSortBy ==
    /\ run.pc = "sortby"
    /\ run' = [run EXCEPT !.pc = "times",
                          !.longitude = sortby_longitude(run.longitude)]
    /\ UNCHANGED <<res, req, mrg>>

(* Lines 127-132.                                                          *)
GridSubsetTimes ==
    /\ run.pc = "times"
    /\ run' = [run EXCEPT !.pc = "sel",
                          !.times = SelTimeslice(run.times, run.timeslice)]
    /\ UNCHANGED <<res, req, mrg>>

(* Lines 153-159.                                                          *)
GridSelectNearest ==
    /\ run.pc = "sel"
    /\ LET lonvalues == [n \in 1..Len(run.longitude) |->
                            run.longitude[n][1]]
       IN IF Monotonic(lonvalues) /\ Monotonic(run.latitude)
          THEN run' = [run EXCEPT
                          !.pc = "returned",
                          !.rows = GridSel(run.latitude, run.longitude,
                                           run.times, run.stations)]
          ELSE run' = [run EXCEPT !.pc = "raised"]
    /\ UNCHANGED <<res, req, mrg>>

NextGrid ==
    \/ GridSwitchLongitude
    \/ GridSortBy
    \/ GridSubsetTimes
    \/ GridSelectNearest

SpecGrid == InitGrid /\ [][NextGrid]_vars

(* The longitude of a grid point of the file in the signed range.          *)
SignedLon(lon) == IF lon >= 180 THEN lon - 360 ELSE lon

(* The grid point of the file is as near to the station as any other, on   *)
(* each axis.                                                              *)
IsNearestPoint(point, station) ==
    /\ \E n \in 1..Len(run.latitude) : run.latitude[n] = point[1]
    /\ \E n \in 1..Len(run.lons) : run.lons[n] = point[2]
    /\ \A n \in 1..Len(run.latitude) :
          Abs(point[1] - station.latitude)
             <= Abs(run.latitude[n] - station.latitude)
    /\ \A n \in 1..Len(run.lons) :
          Abs(SignedLon(point[2]) - station.longitude)
             <= Abs(SignedLon(run.lons[n]) - station.longitude)

(* C30: when the nearest-neighbour lookup is performed (and after it) the  *)
(* longitude coordinate holds every longitude of the file in [-180, 180)   *)
(* (200 as -160) in ascending order; the lookup does not fail and the      *)
(* table has exactly one row per station and selected time, carrying one   *)
(* grid point of the file, the nearest to the station on each axis.        *)
C30_NormalizedSortedThenOnePointPerStation ==
    /\ run.pc # "raised"
    /\ run.pc \in {"sel", "returned"} =>
          /\ Len(run.longitude) = Len(run.lons)
          /\ \A n \in 1..Len(run.longitude) :
                /\ run.longitude[n][1] >= -180
                /\ run.longitude[n][1] < 180
                /\ run.longitude[n][1] = SignedLon(run.longitude[n][2])
                /\ run.longitude[n][2] = 200 => run.longitude[n][1] = -160
          /\ \A n \in 1..(Len(run.longitude) - 1) :
                run.longitude[n][1] < run.longitude[n + 1][1]
          /\ \A n \in 1..Len(run.lons) :
                \E m \in 1..Len(run.longitude) :
                   run.longitude[m][2] = run.lons[n]
    /\ run.pc = "returned" =>
          \A s \in 1..Len(run.stations) :
             \A t \in 1..Len(run.times) :
                /\ Cardinality({n \in 1..Len(run.rows) :
                                   /\ run.rows[n].station = s
                                   /\ run.rows[n].time = run.times[t]}) = 1
                /\ \A n \in 1..Len(run.rows) :
                      run.rows[n].station = s =>
                         IsNearestPoint(run.rows[n].point, run.stations[s])

(* A file with longitudes 0, 100 and 200: sorting moved 200 (as -160) to   *)
(* the front, and the station at -160 reads the grid point at 200.         *)
C30_Witness ==
    /\ run.pc = "returned"
    /\ run.lons = <<0, 100, 200>>
    /\ run.longitude[1] = <<-160, 200>>
    /\ \E n \in 1..Len(run.rows) :
          /\ run.stations[run.rows[n].station].longitude = -160
          /\ run.rows[n].point[2] = 200

====
